---- MODULE Spec2Model ----
(***************************************************************************)
(* Model of the resumable batch task pipelines of mp4-splicing:            *)
(*   - the manual batch split   (src/src/components/BatchSplit.vue)        *)
(*   - the automatic split      (src/src/components/AutoSplit.vue)         *)
(*   - the remove-ending batch  (src/unnamed/part_003)                     *)
(*   - the segment editor       (src/src/components/VideoSplitter.vue)     *)
(*   - the video concat form    (src/unnamed/part_004)                     *)
(*                                                                         *)
(* Every async handler is cut at its awaits of invoke(...) and of the       *)
(* dialog's open(...): the code up to the first of them is the click       *)
(* action, and the code between two of them is one continuation action,    *)
(* taken when the backend or the dialog answers.  An await                 *)
(* of a local async function that does not reach an invoke resumes in the  *)
(* same microtask run and is part of the same action.  A suspended handler *)
(* is a record in the bag "threads"; its locals (the captured task object) *)
(* are fields of the record.  Task objects live in the heap "objs" and     *)
(* batchTasks holds references, since postpone pushes a copy of the task.  *)
(***************************************************************************)
EXTENDS Integers, Sequences, FiniteSets, Bags, TLC

VARIABLES
  pipeline,             \* which component is mounted: "batch", "auto", "remove"
  unattended,           \* AutoSplit.vue:145
  starts,               \* number of list_mp4_files calls issued by the start button
  batchInputDir,        \* BatchSplit.vue:221, AutoSplit.vue:140, part_003:307
  batchOutputDir,       \* BatchSplit.vue:222, AutoSplit.vue:141, part_003:308
  threshold,            \* AutoSplit.vue:143, part_003:310
  minDuration,          \* AutoSplit.vue:144, part_003:311, in tenths of a second
  useNewEnding,         \* part_003:313
  newEndingVideo,       \* part_003:314
  objs,                 \* heap of VideoTask objects, indexed by reference
  batchTasks,           \* sequence of references into objs
  currentTaskIndex,     \* 0-based, as in the source
  isBatchMode,
  videoMetadata,        \* path whose metadata is displayed, NoPath = null
  allFrames,            \* path whose frames are displayed, NoPath = []
  isGeneratingSegments,
  error,
  hasSegments,
  segmentsGenerated,
  selectedSegments,     \* VideoSplitter.vue:169
  currentSelection,     \* VideoSplitter.vue:170
  isProcessing,         \* AutoSplit.vue:153, part_003:321, part_004:220
  currentTaskCompleted, \* AutoSplit.vue:157
  skippedVideos,        \* part_003:325
  threads,              \* bag of suspended handlers (pending invoke calls)
  postponed,            \* number of postpone clicks so far
  overlaps,             \* number of commands issued while a handler was suspended
  faults,               \* number of invokes the backend has rejected
  persisted,            \* content of the progress sidecar in the output folder
  inputDir,             \* part_004:212
  endingVideo,          \* part_004:213
  maxDepth,             \* part_004:214
  randomCountRange,     \* part_004:215, as a sequence of characters
  runTimes,             \* part_004:216
  outputDir,            \* part_004:217
  progressMsg,          \* part_004:218
  errorMsg,             \* part_004:219
  showCompatDialog,     \* part_004:221
  compatMessage,        \* part_004:222
  trace                 \* history of the queue built by the last listing: tasks
                        \* offered and tasks postponed, in order

vars == <<pipeline, unattended, starts, batchInputDir, batchOutputDir,
          threshold, minDuration, useNewEnding, newEndingVideo, objs, batchTasks, currentTaskIndex,
          isBatchMode, videoMetadata, allFrames,
          isGeneratingSegments, error, hasSegments, segmentsGenerated,
          selectedSegments, currentSelection, isProcessing,
          currentTaskCompleted, skippedVideos, threads, postponed, overlaps,
          faults, persisted, inputDir, endingVideo, maxDepth, randomCountRange, runTimes,
          outputDir, progressMsg, errorMsg, showCompatDialog, compatMessage,
          trace>>

\* the refs of the start form of the three batch components
formVars == <<batchInputDir, batchOutputDir, threshold, minDuration,
              useNewEnding, newEndingVideo>>

\* the refs of the video concat form
concatVars == <<inputDir, endingVideo, maxDepth, randomCountRange, runTimes, outputDir,
                progressMsg, errorMsg, showCompatDialog, compatMessage>>

\* what an action that answers no invoke leaves alone besides its own refs
quietVars == <<concatVars, faults>>

(* ---- bounds ---- *)
MaxFiles == 2
MaxPostpone == 1
MaxFrame == 1
MaxOverlap == 1
MaxEditorFrame == 5
MaxStart == 2
MaxFaults == 1
MaxObjects == 2

NoPath == 0
\* String(err) of a rejected invoke: one representative message
ErrMsg == "err"
NoSel == [start |-> -1, end |-> -1]
Frames == 0..MaxFrame

Terminal == {"completed", "skipped"}

\* a string that matters only by a prefix: the prefix and the rest
Str(prefix, rest) == [prefix |-> prefix, rest |-> rest]

NoMsg == Str("", "")

\* the form of part_004 when the component is mounted
FormDefaults ==
  /\ inputDir = ""
  /\ endingVideo = ""
  /\ maxDepth = 2
  /\ randomCountRange = <<"2", ",", "4">>
  /\ runTimes = 1
  /\ outputDir = ""
  /\ progressMsg = NoMsg
  /\ errorMsg = NoMsg
  /\ showCompatDialog = FALSE
  /\ compatMessage = NoMsg

(* ---- helpers ---- *)
\* load_batch_progress answers null: there is no sidecar
NoCheckpoint == [input_dir |-> "", output_dir |-> "", tasks |-> <<>>, current_index |-> -1]

\* load_batch_progress rejected: the invoke throws inside loadBatchProgress
Rejected == [input_dir |-> "", output_dir |-> "", tasks |-> <<>>, current_index |-> -2]

\* a pending invoke that carries no progress argument
NoSnap == NoCheckpoint

Thread(pc, obj) == [pc |-> pc, obj |-> obj, depth |-> 0, snap |-> NoSnap]

\* the progress argument of invoke("save_batch_progress"): {input_dir,
\* output_dir, tasks, current_index}, serialized when the call is issued
Payload(inDir, outDir, tasks, o, idx) ==
  [input_dir |-> inDir,
   output_dir |-> outDir,
   tasks |-> [k \in 1..Len(tasks) |-> o[tasks[k]]],
   current_index |-> idx]

\* input_dir: batchInputDir.value, output_dir: batchOutputDir.value,
\* tasks: batchTasks.value, current_index: currentTaskIndex.value
Progress(tasks, o, idx) == Payload(batchInputDir, batchOutputDir, tasks, o, idx)

\* saveBatchProgress up to its invoke
SaveBatchProgress(pc, obj, depth, tasks, o, idx) ==
  [pc |-> pc, obj |-> obj, depth |-> depth, snap |-> Progress(tasks, o, idx)]

\* the output folder holds no sidecar
NoSidecar == [inputDir |-> "", outputDir |-> "", tasks |-> <<>>, currentIndex |-> -1]

\* a sidecar document that keeps the tasks without their cached preparation
\* data: the variant against which the round trip of a checkpoint is tested
SidecarNoCache(progress) ==
  [inputDir |-> progress.input_dir,
   outputDir |-> progress.output_dir,
   tasks |-> [k \in 1..Len(progress.tasks) |->
                [path |-> progress.tasks[k].path,
                 name |-> progress.tasks[k].name,
                 status |-> progress.tasks[k].status,
                 cachedMetadata |-> NoPath,
                 cachedFrameIndex |-> NoPath]],
   currentIndex |-> progress.current_index]

\* the sidecar document of a progress: {inputDir, outputDir, tasks: [{path,
\* name, status, cachedMetadata?, cachedFrameIndex?}], currentIndex}; an
\* absent cached field is NoPath
Sidecar(progress) ==
  [inputDir |-> progress.input_dir,
   outputDir |-> progress.output_dir,
   tasks |-> [k \in 1..Len(progress.tasks) |->
                [path |-> progress.tasks[k].path,
                 name |-> progress.tasks[k].name,
                 status |-> progress.tasks[k].status,
                 cachedMetadata |-> progress.tasks[k].metadata,
                 cachedFrameIndex |-> progress.tasks[k].frames]],
   currentIndex |-> progress.current_index]

\* save_batch_progress in the backend: the sidecar is overwritten with the
\* document of the progress it was given, or left as it was when the write
\* fails
WriteSidecar(file, progress, ok) == IF ok THEN Sidecar(progress) ELSE file

\* the BatchProgress that a sidecar document is read back as
Saved(file) ==
  [input_dir |-> file.inputDir,
   output_dir |-> file.outputDir,
   tasks |-> [k \in 1..Len(file.tasks) |->
                [path |-> file.tasks[k].path,
                 name |-> file.tasks[k].name,
                 status |-> file.tasks[k].status,
                 frames |-> file.tasks[k].cachedFrameIndex,
                 metadata |-> file.tasks[k].cachedMetadata]],
   current_index |-> file.currentIndex]

\* load_batch_progress in the backend: the saved progress, null when there
\* is no sidecar, or a rejection when the sidecar cannot be read or parsed
ReadSidecar(file, ok) ==
  IF ~ok THEN Rejected
  ELSE IF file = NoSidecar THEN NoCheckpoint
  ELSE Saved(file)

Spawn(thr, t) == thr (+) SetToBag({t})

Kill(thr, t) == thr (-) SetToBag({t})

PrefetchPcs == {"pre_meta", "pre_frames"}

\* suspended handlers that were started by a user command (not prefetches)
Handlers(thr) == BagCardinality(thr)
                 - BagCardinality([t \in {u \in BagToSet(thr) : u.pc \in PrefetchPcs} |-> thr[t]])

\* the backend answers an invoke: it resolves the promise (ok) or rejects it
Answer(ok) ==
  /\ ok \/ faults < MaxFaults
  /\ faults' = IF ok THEN faults ELSE faults + 1

\* a command button is pressed: either no handler is suspended, or the
\* press overlaps a suspended handler (counted against MaxOverlap)
Issue ==
  /\ Handlers(threads) = 0 \/ overlaps < MaxOverlap
  /\ overlaps' = IF Handlers(threads) = 0 THEN overlaps ELSE overlaps + 1

SetStatus(o, ref, s) == [o EXCEPT ![ref].status = s]

\* path.split("/").pop() || path: the file name of a listed path.  The k-th
\* path of a listing, <folder>/<k>.mp4, is written k, and its last
\* component, <k>.mp4, is the record below.
FileName(p) == [file |-> p]

\* a files.map that builds the tasks with status "loading": the variant
\* against which the construction of the queue is tested
NewTaskLoading(p) ==
  [path |-> p, name |-> FileName(p), status |-> "loading", frames |-> NoPath,
   metadata |-> NoPath]

\* files.map(path => ({path, name, status: "pending"})); the optional
\* fields frames and metadata are absent
NewTask(p) ==
  [path |-> p, name |-> FileName(p), status |-> "pending", frames |-> NoPath,
   metadata |-> NoPath]

Active == batchTasks[currentTaskIndex + 1]

Offer(p) == [ev |-> "offer", path |-> p, behind |-> {}]

\* history event of a resume: the saved index, and the paths the loaded
\* checkpoint records as completed or skipped
Resume(progress) ==
  [ev |-> "resume", path |-> progress.current_index,
   behind |-> {progress.tasks[k].path :
                 k \in {i \in 1..Len(progress.tasks) : progress.tasks[i].status \in Terminal}}]

(* ---- VideoSplitter.vue ---- *)
isFrameInSegment(segs, n) ==
  \E i \in 1..Len(segs) : n >= segs[i].start_frame /\ n <= segs[i].end_frame

\* a loadCurrentTask that takes the task at the index whatever its status:
\* the variant against which the skip of completed and skipped tasks is
\* tested
FirstEligibleNoSkip(tasks, o, i) == i

\* the loop guard and the terminal-status skip at the head of loadCurrentTask
RECURSIVE FirstEligible(_, _, _)
FirstEligible(tasks, o, i) ==
  IF i >= Len(tasks) THEN i
  ELSE IF o[tasks[i + 1]].status \in Terminal THEN FirstEligible(tasks, o, i + 1)
  ELSE i

(* ---- BatchSplit.vue: loadCurrentTask, up to its first invoke ---- *)
\* a loadCurrentTask without its test of task.frames && task.metadata, which
\* prepares every task it offers: the variant against which the use of the
\* cached preparation data is tested
LoadCurrentTaskReloads(tasks, o, idx, thr, tr) ==
  LET j == FirstEligible(tasks, o, idx) IN
  /\ batchTasks' = tasks
  /\ currentTaskIndex' = j
  /\ IF j >= Len(tasks)
     THEN /\ isBatchMode' = FALSE
          /\ objs' = o
          /\ threads' = thr
          /\ trace' = tr
          /\ selectedSegments' = <<>>
          /\ currentSelection' = NoSel
          /\ UNCHANGED <<segmentsGenerated, allFrames, videoMetadata>>
     ELSE LET ref == tasks[j + 1] IN
          /\ isBatchMode' = isBatchMode
          /\ segmentsGenerated' = FALSE
          /\ trace' = Append(tr, Offer(o[ref].path))
          /\ objs' = SetStatus(o, ref, "loading")
          /\ threads' = Spawn(thr, Thread("load_meta", ref))
          /\ UNCHANGED <<allFrames, videoMetadata, selectedSegments,
                         currentSelection>>

LoadCurrentTask(tasks, o, idx, thr, tr) ==
  LET j == FirstEligible(tasks, o, idx) IN
  /\ batchTasks' = tasks
  /\ currentTaskIndex' = j
  /\ IF j >= Len(tasks)
     THEN /\ isBatchMode' = FALSE
          /\ objs' = o
          /\ threads' = thr
          /\ trace' = tr
          /\ selectedSegments' = <<>>
          /\ currentSelection' = NoSel
          /\ UNCHANGED <<segmentsGenerated, allFrames, videoMetadata>>
     ELSE LET ref == tasks[j + 1] IN
          /\ isBatchMode' = isBatchMode
          /\ segmentsGenerated' = FALSE
          /\ trace' = Append(tr, Offer(o[ref].path))
          /\ IF o[ref].frames # NoPath /\ o[ref].metadata # NoPath
             THEN /\ allFrames' = o[ref].frames
                  /\ videoMetadata' = o[ref].metadata
                  /\ objs' = SetStatus(o, ref, "ready")
                  /\ selectedSegments' = <<>>
                  /\ currentSelection' = NoSel
                  /\ threads' = Spawn(thr, SaveBatchProgress("load_save", ref, 0, tasks,
                                                            SetStatus(o, ref, "ready"), j))
             ELSE /\ objs' = SetStatus(o, ref, "loading")
                  /\ threads' = Spawn(thr, Thread("load_meta", ref))
                  /\ UNCHANGED <<allFrames, videoMetadata, selectedSegments,
                                 currentSelection>>

\* the refs of a component when it is mounted
Mounted ==
  /\ starts = 0
  /\ batchInputDir = ""
  /\ batchOutputDir = ""
  /\ threshold = 70
  /\ minDuration = 20
  /\ useNewEnding = FALSE
  /\ newEndingVideo = ""
  /\ objs = <<>>
  /\ batchTasks = <<>>
  /\ currentTaskIndex = 0
  /\ isBatchMode = FALSE
  /\ videoMetadata = NoPath
  /\ allFrames = NoPath
  /\ isGeneratingSegments = FALSE
  /\ error = ""
  /\ hasSegments = FALSE
  /\ segmentsGenerated = FALSE
  /\ selectedSegments = <<>>
  /\ currentSelection = NoSel
  /\ isProcessing = FALSE
  /\ currentTaskCompleted = FALSE
  /\ skippedVideos = <<>>
  /\ threads = EmptyBag
  /\ postponed = 0
  /\ overlaps = 0
  /\ faults = 0
  /\ persisted = NoSidecar
  /\ FormDefaults
  /\ trace = <<>>

Init ==
  /\ pipeline \in {"batch", "auto", "remove"}
  /\ unattended = FALSE
  /\ Mounted

cfgVars == <<pipeline, unattended, starts, formVars>>

autoVars == <<isProcessing, currentTaskCompleted, skippedVideos>>

editorVars == <<selectedSegments, currentSelection>>

\* what the handlers of the start form leave alone besides the refs of
\* the form: the batch and everything shown of it
batchRefs == <<pipeline, starts, objs, batchTasks, currentTaskIndex,
               isBatchMode, videoMetadata, allFrames, isGeneratingSegments,
               error, hasSegments, segmentsGenerated, editorVars, autoVars,
               postponed, persisted, quietVars, trace>>

\* everything but the refs of the start form and the unattended checkbox
sessionVars == <<batchRefs, threads, overlaps>>

(* ---- the start form: the block v-if="!isBatchMode" of the three ---- *)
(* ---- batch components                                           ---- *)
\* the form is rendered while the batch view is not
FormShown == pipeline \in {"batch", "auto", "remove"} /\ ~isBatchMode

\* selectBatchInputDir up to await open(...): the folder dialog is opened
SelectBatchInputDir ==
  /\ FormShown
  /\ threads' = Spawn(threads, Thread("pick_input", 0))
  /\ Issue
  /\ UNCHANGED <<formVars, unattended, batchRefs>>

\* the folder dialog of selectBatchInputDir answers: with a folder (one
\* representative for all), or with null when it was cancelled, and then
\* nothing is assigned; the handler does not look at isBatchMode
SelectBatchInputDirReturn(t, selected) ==
  /\ t.pc = "pick_input"
  /\ threads' = Kill(threads, t)
  /\ batchInputDir' = IF selected THEN "in" ELSE batchInputDir
  /\ UNCHANGED <<batchOutputDir, threshold, minDuration, useNewEnding,
                 newEndingVideo, unattended, batchRefs, overlaps>>

\* selectBatchOutputDir up to await open(...)
SelectBatchOutputDir ==
  /\ FormShown
  /\ threads' = Spawn(threads, Thread("pick_output", 0))
  /\ Issue
  /\ UNCHANGED <<formVars, unattended, batchRefs>>

\* the folder dialog of selectBatchOutputDir answers
SelectBatchOutputDirReturn(t, selected) ==
  /\ t.pc = "pick_output"
  /\ threads' = Kill(threads, t)
  /\ batchOutputDir' = IF selected THEN "out" ELSE batchOutputDir
  /\ UNCHANGED <<batchInputDir, threshold, minDuration, useNewEnding,
                 newEndingVideo, unattended, batchRefs, overlaps>>

\* the stop the user drags the threshold slider to: min="0" max="100"
SliderStops == {100}

\* the threshold slider of the automatic split and of the remove-ending batch
SetThreshold(v) ==
  /\ FormShown
  /\ pipeline \in {"auto", "remove"}
  /\ threshold' = v
  /\ UNCHANGED <<batchInputDir, batchOutputDir, minDuration, useNewEnding,
                 newEndingVideo, unattended, sessionVars>>

\* the number the user types into the minimum duration field, in tenths
\* of a second: just below the limit of 0.5 s
TypedDurations == {4}

\* the minimum duration field: type="number" v-model.number="minDuration"
SetMinDuration(d) ==
  /\ FormShown
  /\ pipeline \in {"auto", "remove"}
  /\ minDuration' = d
  /\ UNCHANGED <<batchInputDir, batchOutputDir, threshold, useNewEnding,
                 newEndingVideo, unattended, sessionVars>>

\* the checkbox v-model="unattended" of the automatic split
ToggleUnattended ==
  /\ FormShown
  /\ pipeline = "auto"
  /\ unattended' = ~unattended
  /\ UNCHANGED <<formVars, sessionVars>>

\* the checkbox v-model="useNewEnding" of the remove-ending batch
ToggleUseNewEnding ==
  /\ FormShown
  /\ pipeline = "remove"
  /\ useNewEnding' = ~useNewEnding
  /\ UNCHANGED <<batchInputDir, batchOutputDir, threshold, minDuration,
                 newEndingVideo, unattended, sessionVars>>

\* selectNewEndingVideo up to await open(...): the field and its button
\* are rendered v-if="useNewEnding"
SelectNewEndingVideo ==
  /\ FormShown
  /\ pipeline = "remove"
  /\ useNewEnding
  /\ threads' = Spawn(threads, Thread("pick_ending", 0))
  /\ Issue
  /\ UNCHANGED <<formVars, unattended, batchRefs>>

\* the file dialog of selectNewEndingVideo answers: the handler assigns the
\* file whatever useNewEnding and isBatchMode have become
SelectNewEndingVideoReturn(t, selected) ==
  /\ t.pc = "pick_ending"
  /\ threads' = Kill(threads, t)
  /\ newEndingVideo' = IF selected THEN "ending.mp4" ELSE newEndingVideo
  /\ UNCHANGED <<batchInputDir, batchOutputDir, threshold, minDuration,
                 useNewEnding, unattended, batchRefs, overlaps>>

\* the checks at the head of startAutoSplit and of startRemoveEnding, in
\* the order of the code: the message of the first one that fails, "" when
\* the form passes
FormError(ending) ==
  IF batchInputDir = "" \/ batchOutputDir = "" THEN "select input and output dir"
  ELSE IF threshold < 0 \/ threshold > 100 THEN "threshold must be in 0-100"
  ELSE IF minDuration < 5 THEN "min duration below 0.5"
  ELSE IF ending /\ useNewEnding /\ newEndingVideo = "" THEN "select new ending video"
  ELSE ""

\* startBatchSplit up to invoke("list_mp4_files"), or to the return of the
\* failed check of the two folders
StartBatchSplit ==
  /\ pipeline = "batch"
  /\ ~isBatchMode
  /\ IF batchInputDir = "" \/ batchOutputDir = ""
     THEN /\ error' = "select input and output dir"
          /\ UNCHANGED <<starts, threads, overlaps>>
     ELSE /\ starts < MaxStart
          /\ starts' = starts + 1
          /\ threads' = Spawn(threads, Thread("list", 0))
          /\ Issue
          /\ UNCHANGED error
  /\ UNCHANGED <<persisted, quietVars>>
  /\ UNCHANGED <<pipeline, unattended, formVars, objs, batchTasks,
                 currentTaskIndex, isBatchMode, videoMetadata, allFrames,
                 isGeneratingSegments, hasSegments, segmentsGenerated,
                 selectedSegments, currentSelection, isProcessing,
                 currentTaskCompleted, skippedVideos, postponed, trace>>

\* files.map(...) at BatchSplit.vue:304: one fresh object per listed path
RECURSIVE MapFiles(_)
MapFiles(n) == IF n = 0 THEN <<>> ELSE Append(MapFiles(n - 1), NewTask(n))

\* the references of n objects appended to the heap o
Refs(o, n) == [k \in 1..n |-> Len(o) + k]

\* list_mp4_files answers with n paths (n = 0: empty folder) or fails; then
\* loadBatchProgress is entered up to invoke("load_batch_progress")
ListReturn(t, n, ok) ==
  /\ pipeline = "batch"
  /\ t.pc = "list"
  /\ Answer(ok)
  /\ IF ~ok
     THEN /\ error' = ErrMsg
          /\ threads' = Kill(threads, t)
          /\ UNCHANGED <<objs, batchTasks, currentTaskIndex, isBatchMode, trace>>
     ELSE IF n = 0
     THEN /\ error' = "no mp4 files"
          /\ threads' = Kill(threads, t)
          /\ UNCHANGED <<objs, batchTasks, currentTaskIndex, isBatchMode, trace>>
     ELSE /\ objs' = objs \o MapFiles(n)
          /\ batchTasks' = Refs(objs, n)
          /\ currentTaskIndex' = 0
          /\ isBatchMode' = TRUE
          /\ threads' = Spawn(Kill(threads, t), Thread("load_progress", 0))
          /\ trace' = <<>>
          /\ UNCHANGED error
  /\ UNCHANGED <<overlaps, persisted, concatVars>>
  /\ UNCHANGED <<cfgVars, videoMetadata, allFrames,
                 isGeneratingSegments, hasSegments, segmentsGenerated,
                 editorVars, autoVars, postponed>>

\* the assignments of loadBatchProgress once load_batch_progress answered:
\* if (progress) { batchTasks = progress.tasks; currentTaskIndex =
\* progress.current_index }; a null answer changes nothing, and a rejected
\* call is caught by the catch block of loadBatchProgress, which is empty.
\* The tasks of the answer are new objects.
Restore(tasks, o, idx, progress) ==
  IF progress \in {NoCheckpoint, Rejected}
  THEN [tasks |-> tasks, o |-> o, idx |-> idx, tr |-> trace]
  ELSE [tasks |-> [k \in 1..Len(progress.tasks) |-> Len(o) + k],
        o |-> o \o progress.tasks,
        idx |-> progress.current_index,
        tr |-> Append(trace, Resume(progress))]

\* a loadBatchProgress without its try / catch: the rejection reaches the
\* catch block of startBatchSplit, which shows the error and loads no task;
\* the variant against which a failed checkpoint load is tested
LoadProgressReturnThrows(t, ok) ==
  /\ pipeline = "batch"
  /\ t.pc = "load_progress"
  /\ Answer(ok)
  /\ IF ReadSidecar(persisted, ok) = Rejected
     THEN /\ error' = ErrMsg
          /\ threads' = Kill(threads, t)
          /\ UNCHANGED <<objs, batchTasks, currentTaskIndex, isBatchMode,
                         videoMetadata, allFrames, segmentsGenerated, editorVars,
                         trace>>
     ELSE /\ LET st == Restore(batchTasks, objs, currentTaskIndex,
                               ReadSidecar(persisted, ok)) IN
             LoadCurrentTask(st.tasks, st.o, st.idx, Kill(threads, t), st.tr)
          /\ UNCHANGED error
  /\ UNCHANGED <<overlaps, persisted, concatVars>>
  /\ UNCHANGED <<cfgVars, isGeneratingSegments, hasSegments, autoVars,
                 postponed>>

\* load_batch_progress answered; startBatchSplit goes on into loadCurrentTask
LoadProgressReturn(t, ok) ==
  /\ pipeline = "batch"
  /\ t.pc = "load_progress"
  /\ Answer(ok)
  /\ LET st == Restore(batchTasks, objs, currentTaskIndex, ReadSidecar(persisted, ok)) IN
     LoadCurrentTask(st.tasks, st.o, st.idx, Kill(threads, t), st.tr)
  /\ UNCHANGED <<overlaps, persisted, concatVars>>
  /\ UNCHANGED <<cfgVars, isGeneratingSegments, error, hasSegments, autoVars,
                 postponed>>

\* get_video_metadata answered inside loadCurrentTask
LoadMetaReturn(t, ok) ==
  /\ t.pc = "load_meta"
  /\ Answer(ok)
  /\ IF ok
     THEN /\ videoMetadata' = objs[t.obj].path
          /\ threads' = Spawn(Kill(threads, t), Thread("load_frames", t.obj))
          /\ UNCHANGED error
     ELSE /\ error' = ErrMsg
          /\ threads' = Spawn(Kill(threads, t),
                              SaveBatchProgress("load_save", t.obj, 0, batchTasks, objs,
                                                currentTaskIndex))
          /\ UNCHANGED videoMetadata
  /\ UNCHANGED <<overlaps, persisted, concatVars>>
  /\ UNCHANGED <<cfgVars, objs, batchTasks, currentTaskIndex, isBatchMode,
                 allFrames, isGeneratingSegments, hasSegments,
                 segmentsGenerated, editorVars, autoVars, postponed, trace>>

\* extract_all_frames answered inside loadCurrentTask
LoadFramesReturn(t, ok) ==
  /\ t.pc = "load_frames"
  /\ Answer(ok)
  /\ IF ok
     THEN /\ allFrames' = objs[t.obj].path
          /\ objs' = [objs EXCEPT ![t.obj].frames = objs[t.obj].path,
                                  ![t.obj].metadata = videoMetadata,
                                  ![t.obj].status = "ready"]
          /\ selectedSegments' = <<>>
          /\ currentSelection' = NoSel
          /\ UNCHANGED error
     ELSE /\ error' = ErrMsg
          /\ UNCHANGED <<allFrames, objs, editorVars>>
  /\ threads' = Spawn(Kill(threads, t),
                      SaveBatchProgress("load_save", t.obj, 0, batchTasks, objs',
                                        currentTaskIndex))
  /\ UNCHANGED <<overlaps, persisted, concatVars>>
  /\ UNCHANGED <<cfgVars, batchTasks, currentTaskIndex, isBatchMode,
                 videoMetadata, isGeneratingSegments, hasSegments,
                 segmentsGenerated, autoVars, postponed, trace>>

\* preloadTask up to invoke("get_video_metadata")
PreloadTask(st, ref) ==
  [o |-> SetStatus(st.o, ref, "loading"),
   thr |-> Spawn(st.thr, Thread("pre_meta", ref))]

PreloadStep(st, tasks, idx, i) ==
  IF idx + i < Len(tasks) /\ st.o[tasks[idx + i + 1]].status = "pending"
  THEN PreloadTask(st, tasks[idx + i + 1])
  ELSE st

\* preloadNextTasks: the loop over i = 1, 2
PreloadNextTasks(o, tasks, idx, thr) ==
  PreloadStep(PreloadStep([o |-> o, thr |-> thr], tasks, idx, 1), tasks, idx, 2)

\* save_batch_progress answered at the end of loadCurrentTask; the caller
\* (start, skip, postpone, delete, keep) then runs preloadNextTasks
LoadSaveReturn(t, ok) ==
  /\ t.pc = "load_save"
  /\ Answer(ok)
  /\ LET st == PreloadNextTasks(objs, batchTasks, currentTaskIndex, Kill(threads, t)) IN
     /\ objs' = st.o
     /\ threads' = st.thr
  /\ persisted' = WriteSidecar(persisted, t.snap, ok)
  /\ UNCHANGED <<overlaps, concatVars>>
  /\ UNCHANGED <<cfgVars, batchTasks, currentTaskIndex, isBatchMode,
                 videoMetadata, allFrames, isGeneratingSegments, error,
                 hasSegments, segmentsGenerated, editorVars, autoVars,
                 postponed, trace>>

\* get_video_metadata answered inside preloadTask
PreMetaReturn(t, ok) ==
  /\ t.pc = "pre_meta"
  /\ Answer(ok)
  /\ IF ok
     THEN /\ threads' = Spawn(Kill(threads, t), Thread("pre_frames", t.obj))
          /\ UNCHANGED objs
     ELSE /\ threads' = Kill(threads, t)
          /\ objs' = SetStatus(objs, t.obj, "pending")
  /\ UNCHANGED <<overlaps, persisted, concatVars>>
  /\ UNCHANGED <<cfgVars, batchTasks, currentTaskIndex, isBatchMode,
                 videoMetadata, allFrames, isGeneratingSegments, error,
                 hasSegments, segmentsGenerated, editorVars, autoVars,
                 postponed, trace>>

\* extract_all_frames answered inside preloadTask
PreFramesReturn(t, ok) ==
  /\ t.pc = "pre_frames"
  /\ Answer(ok)
  /\ threads' = Kill(threads, t)
  /\ IF ok
     THEN objs' = [objs EXCEPT ![t.obj].metadata = objs[t.obj].path,
                               ![t.obj].frames = objs[t.obj].path,
                               ![t.obj].status = "ready"]
     ELSE objs' = SetStatus(objs, t.obj, "pending")
  /\ UNCHANGED <<overlaps, persisted, concatVars>>
  /\ UNCHANGED <<cfgVars, batchTasks, currentTaskIndex, isBatchMode,
                 videoMetadata, allFrames, isGeneratingSegments, error,
                 hasSegments, segmentsGenerated, editorVars, autoVars,
                 postponed, trace>>

\* the skip and postpone buttons are rendered whenever isBatchMode holds
CanCommand == isBatchMode

\* skipCurrentVideo up to the invoke inside saveBatchProgress
SkipCurrentVideo ==
  /\ pipeline = "batch"
  /\ CanCommand
  /\ objs' = SetStatus(objs, Active, "skipped")
  /\ threads' = Spawn(threads, SaveBatchProgress("advance_save", Active, 0, batchTasks,
                                                 objs', currentTaskIndex))
  /\ Issue
  /\ UNCHANGED <<persisted, quietVars>>
  /\ UNCHANGED <<cfgVars, batchTasks, currentTaskIndex, isBatchMode,
                 videoMetadata, allFrames, isGeneratingSegments, error,
                 hasSegments, segmentsGenerated, editorVars, autoVars,
                 postponed, trace>>

\* a saveBatchProgress without its try / catch: a rejected write ends the
\* handler before currentTaskIndex++; the variant against which a failed
\* checkpoint write is tested
AdvanceAfterSaveAborts(t, ok) ==
  /\ pipeline = "batch"
  /\ t.pc = "advance_save"
  /\ Answer(ok)
  /\ IF ok
     THEN LoadCurrentTask(batchTasks, objs, currentTaskIndex + 1, Kill(threads, t), trace)
     ELSE /\ threads' = Kill(threads, t)
          /\ UNCHANGED <<objs, batchTasks, currentTaskIndex, isBatchMode,
                         videoMetadata, allFrames, segmentsGenerated, editorVars,
                         trace>>
  /\ persisted' = WriteSidecar(persisted, t.snap, ok)
  /\ UNCHANGED <<overlaps, concatVars>>
  /\ UNCHANGED <<cfgVars, isGeneratingSegments, error, hasSegments, autoVars,
                 postponed>>

\* the tail shared by skipCurrentVideo, deleteAndNext and nextWithoutDelete:
\* currentTaskIndex++, then loadCurrentTask
AdvanceAfterSave(t, ok) ==
  /\ pipeline = "batch"
  /\ t.pc = "advance_save"
  /\ Answer(ok)
  /\ LoadCurrentTask(batchTasks, objs, currentTaskIndex + 1, Kill(threads, t), trace)
  /\ persisted' = WriteSidecar(persisted, t.snap, ok)
  /\ UNCHANGED <<overlaps, concatVars>>
  /\ UNCHANGED <<cfgVars, isGeneratingSegments, error, hasSegments, autoVars,
                 postponed>>

\* a splice that removes nothing: the variant against which the visiting
\* order is tested
SpliceKeep(tasks, idx) == tasks

\* batchTasks.splice(currentTaskIndex, 1)
Splice(tasks, idx) ==
  [k \in 1..(Len(tasks) - 1) |-> IF k <= idx THEN tasks[k] ELSE tasks[k + 1]]

RestPaths(tasks, o, idx) == {o[tasks[k]].path : k \in (idx + 2)..Len(tasks)}

Postpone(o, tasks, idx) ==
  [ev |-> "postpone", path |-> o[tasks[idx + 1]].path, behind |-> RestPaths(tasks, o, idx)]

\* postponeCurrentVideo: task.status = "later", splice, push({...task, status: "pending"})
PostponeTasks(tasks, o, idx) ==
  [o |-> Append(SetStatus(o, tasks[idx + 1], "later"),
                [o[tasks[idx + 1]] EXCEPT !.status = "pending"]),
   tasks |-> Append(Splice(tasks, idx), Len(o) + 1)]

\* postponeCurrentVideo, first part: the reorder, up to the invoke inside
\* its await saveBatchProgress()
PostponeCurrentVideo ==
  /\ pipeline = "batch"
  /\ CanCommand
  /\ postponed < MaxPostpone
  /\ postponed' = postponed + 1
  /\ LET st == PostponeTasks(batchTasks, objs, currentTaskIndex) IN
     /\ objs' = st.o
     /\ batchTasks' = st.tasks
  /\ trace' = Append(trace, Postpone(objs, batchTasks, currentTaskIndex))
  /\ threads' = Spawn(threads, SaveBatchProgress("postpone_save", Active, 0, batchTasks',
                                                 objs', currentTaskIndex))
  /\ Issue
  /\ UNCHANGED <<persisted, quietVars>>
  /\ UNCHANGED <<cfgVars, currentTaskIndex, isBatchMode, videoMetadata,
                 allFrames, isGeneratingSegments, error, hasSegments,
                 segmentsGenerated, editorVars, autoVars>>

\* postponeCurrentVideo, second part: save_batch_progress answered and the
\* handler goes on into await loadCurrentTask(); its preloadNextTasks()
\* runs when loadCurrentTask has returned (LoadSaveReturn)
PostponeAfterSave(t, ok) ==
  /\ pipeline = "batch"
  /\ t.pc = "postpone_save"
  /\ Answer(ok)
  /\ LoadCurrentTask(batchTasks, objs, currentTaskIndex, Kill(threads, t), trace)
  /\ persisted' = WriteSidecar(persisted, t.snap, ok)
  /\ UNCHANGED <<overlaps, concatVars>>
  /\ UNCHANGED <<cfgVars, isGeneratingSegments, error, hasSegments, autoVars,
                 postponed>>

\* a generate button that stays rendered during a generation: the variant
\* against which the single generation call is tested
CanGenerateWhileGenerating == isBatchMode /\ hasSegments /\ ~segmentsGenerated

\* the generate button: v-if="hasSegments && !isGeneratingSegments && !segmentsGenerated"
CanGenerate == isBatchMode /\ hasSegments /\ ~isGeneratingSegments /\ ~segmentsGenerated

\* handleGenerate without its length test: the variant against which the
\* rejection of an empty selection is tested
HandleGenerateNoCheck(segments) ==
  /\ isGeneratingSegments' = TRUE
  /\ error' = ""
  /\ threads' = Spawn(threads, Thread("generate", Active))

\* generateCurrentVideo -> handleGenerate(currentSegments), up to
\* invoke("generate_video_segments")
HandleGenerate(segments) ==
  IF Len(segments) = 0
  THEN /\ error' = "empty selection"
       /\ UNCHANGED <<isGeneratingSegments, threads>>
  ELSE /\ isGeneratingSegments' = TRUE
       /\ error' = ""
       /\ threads' = Spawn(threads, Thread("generate", Active))

GenerateCurrentVideo ==
  /\ pipeline = "batch"
  /\ CanGenerate
  /\ HandleGenerate(selectedSegments)
  /\ Issue
  /\ UNCHANGED <<persisted, quietVars>>
  /\ UNCHANGED <<cfgVars, objs, batchTasks, currentTaskIndex, isBatchMode,
                 videoMetadata, allFrames, hasSegments, segmentsGenerated,
                 editorVars, autoVars, postponed, trace>>

\* generate_video_segments answered inside handleGenerate
GenerateReturn(t, ok) ==
  /\ t.pc = "generate"
  /\ Answer(ok)
  /\ threads' = Kill(threads, t)
  /\ IF ok
     THEN segmentsGenerated' = TRUE /\ UNCHANGED error
     ELSE error' = ErrMsg /\ UNCHANGED segmentsGenerated
  /\ isGeneratingSegments' = FALSE
  /\ UNCHANGED <<overlaps, persisted, concatVars>>
  /\ UNCHANGED <<cfgVars, objs, batchTasks, currentTaskIndex, isBatchMode,
                 videoMetadata, allFrames, hasSegments, editorVars, autoVars,
                 postponed, trace>>

\* the disposition buttons: v-if="segmentsGenerated && !isGeneratingSegments"
CanDispose == isBatchMode /\ segmentsGenerated /\ ~isGeneratingSegments

\* deleteAndNext up to invoke("delete_video_file")
DeleteAndNext ==
  /\ pipeline = "batch"
  /\ CanDispose
  /\ threads' = Spawn(threads, Thread("delete", Active))
  /\ Issue
  /\ UNCHANGED <<persisted, quietVars>>
  /\ UNCHANGED <<cfgVars, objs, batchTasks, currentTaskIndex, isBatchMode,
                 videoMetadata, allFrames, isGeneratingSegments, error,
                 hasSegments, segmentsGenerated, editorVars, autoVars,
                 postponed, trace>>

\* delete_video_file answered inside deleteAndNext
DeleteReturn(t, ok) ==
  /\ pipeline = "batch"
  /\ t.pc = "delete"
  /\ Answer(ok)
  /\ IF ok
     THEN /\ objs' = SetStatus(objs, t.obj, "completed")
          /\ threads' = Spawn(Kill(threads, t),
                              SaveBatchProgress("advance_save", t.obj, 0, batchTasks,
                                                objs', currentTaskIndex))
          /\ UNCHANGED error
     ELSE /\ error' = ErrMsg
          /\ threads' = Kill(threads, t)
          /\ UNCHANGED objs
  /\ UNCHANGED <<overlaps, persisted, concatVars>>
  /\ UNCHANGED <<cfgVars, batchTasks, currentTaskIndex, isBatchMode,
                 videoMetadata, allFrames, isGeneratingSegments, hasSegments,
                 segmentsGenerated, editorVars, autoVars, postponed, trace>>

\* a nextWithoutDelete that marks the task skipped: the variant against
\* which the effect of keep-then-advance is tested
NextWithoutDeleteSkips ==
  /\ pipeline = "batch"
  /\ CanDispose
  /\ objs' = SetStatus(objs, Active, "skipped")
  /\ threads' = Spawn(threads, SaveBatchProgress("advance_save", Active, 0, batchTasks,
                                                 objs', currentTaskIndex))
  /\ Issue
  /\ UNCHANGED <<persisted, quietVars>>
  /\ UNCHANGED <<cfgVars, batchTasks, currentTaskIndex, isBatchMode,
                 videoMetadata, allFrames, isGeneratingSegments, error,
                 hasSegments, segmentsGenerated, editorVars, autoVars,
                 postponed, trace>>

\* nextWithoutDelete up to the invoke inside saveBatchProgress
NextWithoutDelete ==
  /\ pipeline = "batch"
  /\ CanDispose
  /\ objs' = SetStatus(objs, Active, "completed")
  /\ threads' = Spawn(threads, SaveBatchProgress("advance_save", Active, 0, batchTasks,
                                                 objs', currentTaskIndex))
  /\ Issue
  /\ UNCHANGED <<persisted, quietVars>>
  /\ UNCHANGED <<cfgVars, batchTasks, currentTaskIndex, isBatchMode,
                 videoMetadata, allFrames, isGeneratingSegments, error,
                 hasSegments, segmentsGenerated, editorVars, autoVars,
                 postponed, trace>>

(* ---- VideoSplitter.vue, mounted inside the batch view ---- *)
isSegmentStart(segs, n) == \E i \in 1..Len(segs) : n = segs[i].start_frame

\* the frame grid is rendered when the splitter is mounted and has frames
GridShown == isBatchMode /\ videoMetadata # NoPath /\ allFrames # NoPath

\* a frame can be clicked when it is drawn as a normal frame
Clickable(n) == ~isSegmentStart(selectedSegments, n) /\ ~isFrameInSegment(selectedSegments, n)

selectFrame(sel, n) ==
  IF sel = NoSel THEN [start |-> n, end |-> n]
  ELSE IF n < sel.start THEN [sel EXCEPT !.start = n]
  ELSE [sel EXCEPT !.end = n]

SelectFrame(n) ==
  /\ pipeline = "batch"
  /\ GridShown
  /\ Clickable(n)
  /\ currentSelection' = selectFrame(currentSelection, n)
  /\ UNCHANGED <<overlaps, persisted, quietVars>>
  /\ UNCHANGED <<cfgVars, objs, batchTasks, currentTaskIndex, isBatchMode,
                 videoMetadata, allFrames, isGeneratingSegments, error,
                 hasSegments, segmentsGenerated, selectedSegments, autoVars,
                 threads, postponed, trace>>

\* an addSegment without its start >= end test: the variant against which
\* the rejection of an empty range is tested
addSegmentNoCheck(segs, sel) ==
  IF sel = NoSel
  THEN [segs |-> segs, sel |-> sel]
  ELSE [segs |-> Append(segs, [start_frame |-> sel.start, end_frame |-> sel.end]),
        sel |-> NoSel]

\* addSegment: the result for the confirmed list and the open range
addSegment(segs, sel) ==
  IF sel = NoSel \/ sel.start >= sel.end
  THEN [segs |-> segs, sel |-> sel]
  ELSE [segs |-> Append(segs, [start_frame |-> sel.start, end_frame |-> sel.end]),
        sel |-> NoSel]

\* onSegmentsChange, fired by emit('segmentsChange') when addSegment pushed
AddSegment ==
  /\ pipeline = "batch"
  /\ GridShown
  /\ currentSelection # NoSel
  /\ LET r == addSegment(selectedSegments, currentSelection) IN
     /\ selectedSegments' = r.segs
     /\ currentSelection' = r.sel
     /\ hasSegments' = IF r.sel = NoSel THEN Len(r.segs) > 0 ELSE hasSegments
  /\ UNCHANGED <<overlaps, persisted, quietVars>>
  /\ UNCHANGED <<cfgVars, objs, batchTasks, currentTaskIndex, isBatchMode,
                 videoMetadata, allFrames, isGeneratingSegments, error,
                 segmentsGenerated, autoVars, threads, postponed, trace>>

\* the cancel button of the selection-info line: currentSelection = null
CancelSelection ==
  /\ pipeline = "batch"
  /\ GridShown
  /\ currentSelection # NoSel
  /\ currentSelection' = NoSel
  /\ UNCHANGED <<overlaps, persisted, quietVars>>
  /\ UNCHANGED <<cfgVars, objs, batchTasks, currentTaskIndex, isBatchMode,
                 videoMetadata, allFrames, isGeneratingSegments, error,
                 hasSegments, segmentsGenerated, selectedSegments, autoVars,
                 threads, postponed, trace>>

\* the position Array.prototype.splice starts at: a negative start counts
\* from the end of the array and is clamped at 0, a start beyond the end is
\* clamped at the length
SpliceStart(len, index) ==
  IF index < 0
  THEN (IF len + index < 0 THEN 0 ELSE len + index)
  ELSE (IF index > len THEN len ELSE index)

\* a removeSegment that is selectedSegments.pop(): it removes the last
\* range whatever the index; the variant against which the removal by
\* position is tested
removeSegmentLast(segs, index) ==
  IF Len(segs) = 0 THEN segs ELSE SubSeq(segs, 1, Len(segs) - 1)

\* selectedSegments.splice(index, 1): one element is removed at the start
\* position when there is one
removeSegment(segs, index) ==
  LET start == SpliceStart(Len(segs), index) IN
  IF start >= Len(segs) THEN segs
  ELSE [k \in 1..(Len(segs) - 1) |-> IF k <= start THEN segs[k] ELSE segs[k + 1]]

\* the remove button of the index-th row of the segment list
\* (v-for="(segment, index) in selectedSegments"): removeSegment(index),
\* then onSegmentsChange
RemoveSegment(index) ==
  /\ pipeline = "batch"
  /\ isBatchMode
  /\ videoMetadata # NoPath
  /\ index \in 0..(Len(selectedSegments) - 1)
  /\ selectedSegments' = removeSegment(selectedSegments, index)
  /\ hasSegments' = (Len(selectedSegments') > 0)
  /\ UNCHANGED <<overlaps, persisted, quietVars>>
  /\ UNCHANGED <<cfgVars, objs, batchTasks, currentTaskIndex, isBatchMode,
                 videoMetadata, allFrames, isGeneratingSegments, error,
                 segmentsGenerated, currentSelection, autoVars, threads,
                 postponed, trace>>

(* ---- AutoSplit.vue ---- *)
Frame(pc, obj, depth) == [pc |-> pc, obj |-> obj, depth |-> depth, snap |-> NoSnap]

\* the part of processCurrentTask after its try block: finally, then the
\* invoke inside saveBatchProgress
ProcessTail(thr, ref, depth, tasks, o, idx) ==
  Spawn(thr, SaveBatchProgress("tail_save", ref, depth, tasks, o, idx))

\* processCurrentTask up to invoke("get_video_metadata"); depth counts the
\* callers that are themselves processCurrentTask frames awaiting this call
ProcessCurrentTask(tasks, o, idx, thr, tr, depth) ==
  LET j == FirstEligible(tasks, o, idx) IN
  /\ batchTasks' = tasks
  /\ currentTaskIndex' = j
  /\ IF j >= Len(tasks)
     THEN /\ isBatchMode' = FALSE
          /\ objs' = o
          /\ trace' = tr
          /\ IF depth > 0
             THEN /\ isProcessing' = FALSE
                  /\ threads' = ProcessTail(thr, 0, depth - 1, tasks, o, j)
             ELSE /\ threads' = thr
                  /\ UNCHANGED isProcessing
          /\ UNCHANGED <<currentTaskCompleted, error>>
     ELSE LET ref == tasks[j + 1] IN
          /\ isBatchMode' = isBatchMode
          /\ objs' = SetStatus(o, ref, "processing")
          /\ currentTaskCompleted' = FALSE
          /\ isProcessing' = TRUE
          /\ error' = ""
          /\ trace' = Append(tr, Offer(o[ref].path))
          /\ threads' = Spawn(thr, Frame("process_meta", ref, depth))

\* startAutoSplit up to invoke("list_mp4_files"), or to the return of a
\* failed check of the form
StartAutoSplit ==
  /\ pipeline = "auto"
  /\ ~isBatchMode
  /\ IF FormError(FALSE) # ""
     THEN /\ error' = FormError(FALSE)
          /\ UNCHANGED <<starts, threads, overlaps>>
     ELSE /\ starts < MaxStart
          /\ starts' = starts + 1
          /\ threads' = Spawn(threads, Thread("list", 0))
          /\ Issue
          /\ UNCHANGED error
  /\ UNCHANGED <<persisted, quietVars>>
  /\ UNCHANGED <<pipeline, unattended, formVars, objs, batchTasks,
                 currentTaskIndex, isBatchMode, videoMetadata, allFrames,
                 isGeneratingSegments, hasSegments, segmentsGenerated,
                 editorVars, autoVars, postponed, trace>>

batchOnly == <<allFrames, isGeneratingSegments, hasSegments, segmentsGenerated,
               selectedSegments, currentSelection>>

AutoListReturn(t, n, ok) ==
  /\ pipeline = "auto"
  /\ t.pc = "list"
  /\ Answer(ok)
  /\ IF ~ok
     THEN /\ error' = ErrMsg
          /\ threads' = Kill(threads, t)
          /\ UNCHANGED <<objs, batchTasks, currentTaskIndex, isBatchMode, trace>>
     ELSE IF n = 0
     THEN /\ error' = "no mp4 files"
          /\ threads' = Kill(threads, t)
          /\ UNCHANGED <<objs, batchTasks, currentTaskIndex, isBatchMode, trace>>
     ELSE /\ objs' = objs \o MapFiles(n)
          /\ batchTasks' = Refs(objs, n)
          /\ currentTaskIndex' = 0
          /\ isBatchMode' = TRUE
          /\ threads' = Spawn(Kill(threads, t), Thread("load_progress", 0))
          /\ trace' = <<>>
          /\ UNCHANGED error
  /\ UNCHANGED <<overlaps, persisted, concatVars>>
  /\ UNCHANGED <<cfgVars, videoMetadata, batchOnly, autoVars, postponed>>

\* load_batch_progress answered; startAutoSplit goes on into
\* processCurrentTask
AutoLoadProgressReturn(t, ok) ==
  /\ pipeline = "auto"
  /\ t.pc = "load_progress"
  /\ Answer(ok)
  /\ LET st == Restore(batchTasks, objs, currentTaskIndex, ReadSidecar(persisted, ok)) IN
     ProcessCurrentTask(st.tasks, st.o, st.idx, Kill(threads, t), st.tr, 0)
  /\ UNCHANGED <<overlaps, persisted, concatVars>>
  /\ UNCHANGED <<cfgVars, videoMetadata, batchOnly, skippedVideos, postponed>>

\* the catch and finally blocks of processCurrentTask, then saveBatchProgress
ProcessFailed(t) ==
  /\ error' = ErrMsg
  /\ objs' = SetStatus(objs, t.obj, "error")
  /\ isProcessing' = FALSE
  /\ threads' = ProcessTail(Kill(threads, t), t.obj, t.depth, batchTasks, objs',
                            currentTaskIndex)

\* get_video_metadata answered inside processCurrentTask
ProcessMetaReturn(t, ok) ==
  /\ pipeline = "auto"
  /\ t.pc = "process_meta"
  /\ Answer(ok)
  /\ IF ok
     THEN /\ videoMetadata' = objs[t.obj].path
          /\ objs' = [objs EXCEPT ![t.obj].metadata = objs[t.obj].path]
          /\ threads' = Spawn(Kill(threads, t), Frame("process_split", t.obj, t.depth))
          /\ UNCHANGED <<error, isProcessing>>
     ELSE /\ ProcessFailed(t)
          /\ UNCHANGED videoMetadata
  /\ UNCHANGED <<overlaps, persisted, concatVars>>
  /\ UNCHANGED <<cfgVars, batchTasks, currentTaskIndex, isBatchMode, batchOnly,
                 currentTaskCompleted, skippedVideos, postponed, trace>>

\* a processCurrentTask without its unattended branch: a successful split
\* always stops at the alert and waits for the disposition; the variant
\* against which the unattended advance is tested
ProcessSplitReturnAlert(t, ok) ==
  /\ pipeline = "auto"
  /\ t.pc = "process_split"
  /\ Answer(ok)
  /\ IF ok
     THEN /\ currentTaskCompleted' = TRUE
          /\ isProcessing' = FALSE
          /\ UNCHANGED objs
          /\ threads' = ProcessTail(Kill(threads, t), t.obj, t.depth, batchTasks,
                                    objs, currentTaskIndex)
          /\ UNCHANGED error
     ELSE /\ ProcessFailed(t)
          /\ UNCHANGED currentTaskCompleted
  /\ UNCHANGED <<overlaps, persisted, concatVars>>
  /\ UNCHANGED <<cfgVars, batchTasks, currentTaskIndex, isBatchMode,
                 videoMetadata, batchOnly, skippedVideos, postponed, trace>>

\* auto_split_video answered inside processCurrentTask
ProcessSplitReturn(t, ok) ==
  /\ pipeline = "auto"
  /\ t.pc = "process_split"
  /\ Answer(ok)
  /\ IF ok
     THEN /\ currentTaskCompleted' = TRUE
          /\ IF unattended
             THEN /\ objs' = SetStatus(objs, t.obj, "completed")
                  /\ threads' = Spawn(Kill(threads, t),
                                      SaveBatchProgress("unattended_save", t.obj, t.depth,
                                                        batchTasks, objs', currentTaskIndex))
                  /\ UNCHANGED isProcessing
             ELSE /\ isProcessing' = FALSE
                  /\ UNCHANGED objs
                  /\ threads' = ProcessTail(Kill(threads, t), t.obj, t.depth, batchTasks,
                                            objs, currentTaskIndex)
          /\ UNCHANGED error
     ELSE /\ ProcessFailed(t)
          /\ UNCHANGED currentTaskCompleted
  /\ UNCHANGED <<overlaps, persisted, concatVars>>
  /\ UNCHANGED <<cfgVars, batchTasks, currentTaskIndex, isBatchMode,
                 videoMetadata, batchOnly, skippedVideos, postponed, trace>>

\* save_batch_progress answered in the unattended branch: currentTaskIndex++
\* and the nested processCurrentTask
UnattendedSaveReturn(t, ok) ==
  /\ pipeline = "auto"
  /\ t.pc = "unattended_save"
  /\ Answer(ok)
  /\ ProcessCurrentTask(batchTasks, objs, currentTaskIndex + 1, Kill(threads, t), trace,
                        t.depth + 1)
  /\ persisted' = WriteSidecar(persisted, t.snap, ok)
  /\ UNCHANGED <<overlaps, concatVars>>
  /\ UNCHANGED <<cfgVars, videoMetadata, batchOnly, skippedVideos, postponed>>

\* save_batch_progress answered at the end of processCurrentTask: the frame
\* returns, and an awaiting processCurrentTask frame runs its own tail
TailSaveReturn(t, ok) ==
  /\ pipeline = "auto"
  /\ t.pc = "tail_save"
  /\ Answer(ok)
  /\ IF t.depth > 0
     THEN /\ isProcessing' = FALSE
          /\ threads' = ProcessTail(Kill(threads, t), t.obj, t.depth - 1, batchTasks,
                                    objs, currentTaskIndex)
     ELSE /\ threads' = Kill(threads, t)
          /\ UNCHANGED isProcessing
  /\ persisted' = WriteSidecar(persisted, t.snap, ok)
  /\ UNCHANGED <<overlaps, concatVars>>
  /\ UNCHANGED <<cfgVars, objs, batchTasks, currentTaskIndex, isBatchMode,
                 videoMetadata, error, batchOnly, currentTaskCompleted,
                 skippedVideos, postponed, trace>>

\* AutoSplit.vue skipCurrentVideo up to the invoke inside saveBatchProgress
AutoSkipCurrentVideo ==
  /\ pipeline = "auto"
  /\ CanCommand
  /\ objs' = SetStatus(objs, Active, "skipped")
  /\ threads' = Spawn(threads, SaveBatchProgress("advance_save", Active, 0, batchTasks,
                                                 objs', currentTaskIndex))
  /\ Issue
  /\ UNCHANGED <<persisted, quietVars>>
  /\ UNCHANGED <<cfgVars, batchTasks, currentTaskIndex, isBatchMode,
                 videoMetadata, error, batchOnly, autoVars, postponed, trace>>

\* the tail shared by skipCurrentVideo, deleteAndNext and nextWithoutDelete
\* of AutoSplit.vue: currentTaskIndex++, then processCurrentTask
AutoAdvanceAfterSave(t, ok) ==
  /\ pipeline = "auto"
  /\ t.pc = "advance_save"
  /\ Answer(ok)
  /\ ProcessCurrentTask(batchTasks, objs, currentTaskIndex + 1, Kill(threads, t), trace, 0)
  /\ persisted' = WriteSidecar(persisted, t.snap, ok)
  /\ UNCHANGED <<overlaps, concatVars>>
  /\ UNCHANGED <<cfgVars, videoMetadata, batchOnly, skippedVideos, postponed>>

\* AutoSplit.vue postponeCurrentVideo up to the invoke inside saveBatchProgress
AutoPostponeCurrentVideo ==
  /\ pipeline = "auto"
  /\ CanCommand
  /\ postponed < MaxPostpone
  /\ postponed' = postponed + 1
  /\ LET st == PostponeTasks(batchTasks, objs, currentTaskIndex) IN
     /\ objs' = st.o
     /\ batchTasks' = st.tasks
  /\ trace' = Append(trace, Postpone(objs, batchTasks, currentTaskIndex))
  /\ threads' = Spawn(threads, SaveBatchProgress("postpone_save", Active, 0, batchTasks',
                                                 objs', currentTaskIndex))
  /\ Issue
  /\ UNCHANGED <<persisted, quietVars>>
  /\ UNCHANGED <<cfgVars, currentTaskIndex, isBatchMode, videoMetadata, error,
                 batchOnly, autoVars>>

AutoPostponeAfterSave(t, ok) ==
  /\ pipeline = "auto"
  /\ t.pc = "postpone_save"
  /\ Answer(ok)
  /\ ProcessCurrentTask(batchTasks, objs, currentTaskIndex, Kill(threads, t), trace, 0)
  /\ persisted' = WriteSidecar(persisted, t.snap, ok)
  /\ UNCHANGED <<overlaps, concatVars>>
  /\ UNCHANGED <<cfgVars, videoMetadata, batchOnly, skippedVideos, postponed>>

\* v-if="currentTaskCompleted && !isProcessing && !unattended"
AutoCanDispose == isBatchMode /\ currentTaskCompleted /\ ~isProcessing /\ ~unattended

\* AutoSplit.vue deleteAndNext up to invoke("delete_video_file")
AutoDeleteAndNext ==
  /\ pipeline = "auto"
  /\ AutoCanDispose
  /\ threads' = Spawn(threads, Thread("delete", Active))
  /\ Issue
  /\ UNCHANGED <<persisted, quietVars>>
  /\ UNCHANGED <<cfgVars, objs, batchTasks, currentTaskIndex, isBatchMode,
                 videoMetadata, error, batchOnly, autoVars, postponed, trace>>

AutoDeleteReturn(t, ok) ==
  /\ pipeline = "auto"
  /\ t.pc = "delete"
  /\ Answer(ok)
  /\ IF ok
     THEN /\ objs' = SetStatus(objs, t.obj, "completed")
          /\ threads' = Spawn(Kill(threads, t),
                              SaveBatchProgress("advance_save", t.obj, 0, batchTasks,
                                                objs', currentTaskIndex))
          /\ UNCHANGED error
     ELSE /\ error' = ErrMsg
          /\ threads' = Kill(threads, t)
          /\ UNCHANGED objs
  /\ UNCHANGED <<overlaps, persisted, concatVars>>
  /\ UNCHANGED <<cfgVars, batchTasks, currentTaskIndex, isBatchMode,
                 videoMetadata, batchOnly, autoVars, postponed, trace>>

\* AutoSplit.vue nextWithoutDelete up to the invoke inside saveBatchProgress
AutoNextWithoutDelete ==
  /\ pipeline = "auto"
  /\ AutoCanDispose
  /\ objs' = SetStatus(objs, Active, "completed")
  /\ threads' = Spawn(threads, SaveBatchProgress("advance_save", Active, 0, batchTasks,
                                                 objs', currentTaskIndex))
  /\ Issue
  /\ UNCHANGED <<persisted, quietVars>>
  /\ UNCHANGED <<cfgVars, batchTasks, currentTaskIndex, isBatchMode,
                 videoMetadata, error, batchOnly, autoVars, postponed, trace>>

(* ---- remove-ending batch (src/unnamed/part_003) ---- *)
Skipped(name, reason) == [name |-> name, reason |-> reason]

\* processCurrentTask up to invoke("get_video_metadata"); nested is 1 when
\* the caller is a processCurrentTask frame, whose finally block runs as soon
\* as this call returns
RemoveProcessCurrentTask(tasks, o, idx, thr, tr, nested, err, mode) ==
  LET j == FirstEligible(tasks, o, idx) IN
  /\ batchTasks' = tasks
  /\ currentTaskIndex' = j
  /\ threads' = IF j >= Len(tasks) THEN thr
                ELSE Spawn(thr, Frame("remove_meta", tasks[j + 1], nested))
  /\ IF j >= Len(tasks)
     THEN /\ isBatchMode' = FALSE
          /\ objs' = o
          /\ trace' = tr
          /\ isProcessing' = IF nested > 0 THEN FALSE ELSE isProcessing
          /\ error' = err
     ELSE /\ isBatchMode' = mode
          /\ objs' = SetStatus(o, tasks[j + 1], "processing")
          /\ isProcessing' = TRUE
          /\ error' = ""
          /\ trace' = Append(tr, Offer(o[tasks[j + 1]].path))

\* startRemoveEnding up to invoke("list_mp4_files"), or to the return of a
\* failed check of the form
StartRemoveEnding ==
  /\ pipeline = "remove"
  /\ ~isBatchMode
  /\ IF FormError(TRUE) # ""
     THEN /\ error' = FormError(TRUE)
          /\ UNCHANGED <<starts, threads, overlaps>>
     ELSE /\ starts < MaxStart
          /\ starts' = starts + 1
          /\ threads' = Spawn(threads, Thread("list", 0))
          /\ Issue
          /\ UNCHANGED error
  /\ UNCHANGED <<persisted, quietVars>>
  /\ UNCHANGED <<pipeline, unattended, formVars, objs, batchTasks,
                 currentTaskIndex, isBatchMode, videoMetadata, batchOnly,
                 autoVars, postponed, trace>>

\* list_mp4_files answered inside startRemoveEnding
RemoveListReturn(t, n, ok) ==
  /\ pipeline = "remove"
  /\ t.pc = "list"
  /\ Answer(ok)
  /\ IF ok /\ n > 0
     THEN /\ skippedVideos' = <<>>
          /\ RemoveProcessCurrentTask(Refs(objs, n), objs \o MapFiles(n), 0,
                                      Kill(threads, t), <<>>, 0, error, TRUE)
     ELSE /\ error' = IF ok THEN "no mp4 files" ELSE ErrMsg
          /\ threads' = Kill(threads, t)
          /\ UNCHANGED <<objs, batchTasks, currentTaskIndex, isBatchMode,
                         isProcessing, skippedVideos, trace>>
  /\ UNCHANGED <<overlaps, persisted, concatVars>>
  /\ UNCHANGED <<cfgVars, videoMetadata, batchOnly, currentTaskCompleted, postponed>>

\* the catch block of processCurrentTask: record the task as skipped with
\* the reason, currentTaskIndex++, nested processCurrentTask
RemoveFailed(t) ==
  /\ skippedVideos' = Append(skippedVideos, Skipped(objs[t.obj].name, ErrMsg))
  /\ RemoveProcessCurrentTask(batchTasks, SetStatus(objs, t.obj, "skipped"),
                              currentTaskIndex + 1, Kill(threads, t), trace, 1, ErrMsg,
                              isBatchMode)

\* get_video_metadata answered inside processCurrentTask
RemoveMetaReturn(t, ok) ==
  /\ pipeline = "remove"
  /\ t.pc = "remove_meta"
  /\ Answer(ok)
  /\ IF ok
     THEN /\ videoMetadata' = objs[t.obj].path
          /\ objs' = [objs EXCEPT ![t.obj].metadata = objs[t.obj].path]
          /\ threads' = Spawn(Kill(threads, t), Frame("remove_concat", t.obj, t.depth))
          /\ UNCHANGED <<batchTasks, currentTaskIndex, isBatchMode, error,
                         isProcessing, skippedVideos, trace>>
     ELSE /\ RemoveFailed(t)
          /\ UNCHANGED videoMetadata
  /\ UNCHANGED <<overlaps, persisted, concatVars>>
  /\ UNCHANGED <<cfgVars, batchOnly, currentTaskCompleted, postponed>>

\* remove_ending_and_concat answered inside processCurrentTask
RemoveConcatReturn(t, ok) ==
  /\ pipeline = "remove"
  /\ t.pc = "remove_concat"
  /\ Answer(ok)
  /\ IF ok
     THEN /\ RemoveProcessCurrentTask(batchTasks, SetStatus(objs, t.obj, "completed"),
                                      currentTaskIndex + 1, Kill(threads, t), trace, 1,
                                      error, isBatchMode)
          /\ UNCHANGED skippedVideos
     ELSE RemoveFailed(t)
  /\ UNCHANGED <<overlaps, persisted, concatVars>>
  /\ UNCHANGED <<cfgVars, videoMetadata, batchOnly, currentTaskCompleted, postponed>>

\* skipCurrentVideo of the remove-ending batch: it has no await before
\* processCurrentTask
RemoveSkipCurrentVideo ==
  /\ pipeline = "remove"
  /\ CanCommand
  /\ skippedVideos' = Append(skippedVideos, Skipped(objs[Active].name, "manual skip"))
  /\ RemoveProcessCurrentTask(batchTasks, SetStatus(objs, Active, "skipped"),
                              currentTaskIndex + 1, threads, trace, 0, error,
                              isBatchMode)
  /\ Issue
  /\ UNCHANGED <<persisted, quietVars>>
  /\ UNCHANGED <<cfgVars, videoMetadata, batchOnly, currentTaskCompleted, postponed>>

Edit ==
  \/ \E n \in Frames : SelectFrame(n)
  \/ AddSegment
  \/ CancelSelection
  \/ \E i \in 0..MaxFrame : RemoveSegment(i)

\* the numbers of files a listing may answer with: at most MaxFiles, and
\* no more than the heap has room for; an empty listing is always possible
Listable ==
  0..(IF Len(objs) >= MaxObjects THEN 0
      ELSE IF MaxObjects - Len(objs) < MaxFiles THEN MaxObjects - Len(objs)
      ELSE MaxFiles)

\* the controls of the start form
Form ==
  \/ SelectBatchInputDir
  \/ SelectBatchOutputDir
  \/ \E v \in SliderStops : SetThreshold(v)
  \/ \E d \in TypedDurations : SetMinDuration(d)
  \/ ToggleUnattended
  \/ ToggleUseNewEnding
  \/ SelectNewEndingVideo

Command ==
  \/ StartBatchSplit
  \/ SkipCurrentVideo
  \/ PostponeCurrentVideo
  \/ GenerateCurrentVideo
  \/ DeleteAndNext
  \/ NextWithoutDelete
  \/ StartAutoSplit
  \/ AutoSkipCurrentVideo
  \/ AutoPostponeCurrentVideo
  \/ AutoDeleteAndNext
  \/ AutoNextWithoutDelete
  \/ StartRemoveEnding
  \/ RemoveSkipCurrentVideo

Next ==
  \/ Form
  \/ Command
  \/ Edit
  \/ \E t \in BagToSet(threads), selected \in BOOLEAN : SelectBatchInputDirReturn(t, selected)
  \/ \E t \in BagToSet(threads), selected \in BOOLEAN : SelectBatchOutputDirReturn(t, selected)
  \/ \E t \in BagToSet(threads), selected \in BOOLEAN : SelectNewEndingVideoReturn(t, selected)
  \/ \E t \in BagToSet(threads), n \in Listable, ok \in BOOLEAN : ListReturn(t, n, ok)
  \/ \E t \in BagToSet(threads), ok \in BOOLEAN : LoadProgressReturn(t, ok)
  \/ \E t \in BagToSet(threads), ok \in BOOLEAN : LoadMetaReturn(t, ok)
  \/ \E t \in BagToSet(threads), ok \in BOOLEAN : LoadFramesReturn(t, ok)
  \/ \E t \in BagToSet(threads), ok \in BOOLEAN : LoadSaveReturn(t, ok)
  \/ \E t \in BagToSet(threads), ok \in BOOLEAN : PreMetaReturn(t, ok)
  \/ \E t \in BagToSet(threads), ok \in BOOLEAN : PreFramesReturn(t, ok)
  \/ \E t \in BagToSet(threads), ok \in BOOLEAN : AdvanceAfterSave(t, ok)
  \/ \E t \in BagToSet(threads), ok \in BOOLEAN : PostponeAfterSave(t, ok)
  \/ \E t \in BagToSet(threads), ok \in BOOLEAN : GenerateReturn(t, ok)
  \/ \E t \in BagToSet(threads), ok \in BOOLEAN : DeleteReturn(t, ok)
  \/ \E t \in BagToSet(threads), n \in Listable, ok \in BOOLEAN : AutoListReturn(t, n, ok)
  \/ \E t \in BagToSet(threads), ok \in BOOLEAN : AutoLoadProgressReturn(t, ok)
  \/ \E t \in BagToSet(threads), ok \in BOOLEAN : ProcessMetaReturn(t, ok)
  \/ \E t \in BagToSet(threads), ok \in BOOLEAN : ProcessSplitReturn(t, ok)
  \/ \E t \in BagToSet(threads), ok \in BOOLEAN : UnattendedSaveReturn(t, ok)
  \/ \E t \in BagToSet(threads), ok \in BOOLEAN : TailSaveReturn(t, ok)
  \/ \E t \in BagToSet(threads), ok \in BOOLEAN : AutoAdvanceAfterSave(t, ok)
  \/ \E t \in BagToSet(threads), ok \in BOOLEAN : AutoPostponeAfterSave(t, ok)
  \/ \E t \in BagToSet(threads), ok \in BOOLEAN : AutoDeleteReturn(t, ok)
  \/ \E t \in BagToSet(threads), n \in Listable, ok \in BOOLEAN : RemoveListReturn(t, n, ok)
  \/ \E t \in BagToSet(threads), ok \in BOOLEAN : RemoveMetaReturn(t, ok)
  \/ \E t \in BagToSet(threads), ok \in BOOLEAN : RemoveConcatReturn(t, ok)

Spec == Init /\ [][Next]_vars

(* ---- one command at a time ---- *)
\* The user of the manual and of the automatic split presses a command
\* button only when no command handler is suspended, and decides every
\* offered task; prefetches go on in the background.
SeqInit == Init /\ pipeline \in {"batch", "auto"}

\* no command handler is suspended
Idle == Handlers(threads) = 0

SeqCommand ==
  \/ Idle /\ StartBatchSplit
  \/ Idle /\ SkipCurrentVideo
  \/ Idle /\ PostponeCurrentVideo
  \/ Idle /\ GenerateCurrentVideo
  \/ Idle /\ DeleteAndNext
  \/ Idle /\ NextWithoutDelete
  \/ Idle /\ StartAutoSplit
  \/ Idle /\ AutoSkipCurrentVideo
  \/ Idle /\ AutoPostponeCurrentVideo
  \/ Idle /\ AutoDeleteAndNext
  \/ Idle /\ AutoNextWithoutDelete

\* the backend answers a pending invoke
SeqReturn ==
  \/ \E t \in BagToSet(threads), selected \in BOOLEAN : SelectBatchInputDirReturn(t, selected)
  \/ \E t \in BagToSet(threads), selected \in BOOLEAN : SelectBatchOutputDirReturn(t, selected)
  \/ \E t \in BagToSet(threads), n \in Listable, ok \in BOOLEAN : ListReturn(t, n, ok)
  \/ \E t \in BagToSet(threads), ok \in BOOLEAN : LoadProgressReturn(t, ok)
  \/ \E t \in BagToSet(threads), ok \in BOOLEAN : LoadMetaReturn(t, ok)
  \/ \E t \in BagToSet(threads), ok \in BOOLEAN : LoadFramesReturn(t, ok)
  \/ \E t \in BagToSet(threads), ok \in BOOLEAN : LoadSaveReturn(t, ok)
  \/ \E t \in BagToSet(threads), ok \in BOOLEAN : PreMetaReturn(t, ok)
  \/ \E t \in BagToSet(threads), ok \in BOOLEAN : PreFramesReturn(t, ok)
  \/ \E t \in BagToSet(threads), ok \in BOOLEAN : AdvanceAfterSave(t, ok)
  \/ \E t \in BagToSet(threads), ok \in BOOLEAN : PostponeAfterSave(t, ok)
  \/ \E t \in BagToSet(threads), ok \in BOOLEAN : GenerateReturn(t, ok)
  \/ \E t \in BagToSet(threads), ok \in BOOLEAN : DeleteReturn(t, ok)
  \/ \E t \in BagToSet(threads), n \in Listable, ok \in BOOLEAN : AutoListReturn(t, n, ok)
  \/ \E t \in BagToSet(threads), ok \in BOOLEAN : AutoLoadProgressReturn(t, ok)
  \/ \E t \in BagToSet(threads), ok \in BOOLEAN : ProcessMetaReturn(t, ok)
  \/ \E t \in BagToSet(threads), ok \in BOOLEAN : ProcessSplitReturn(t, ok)
  \/ \E t \in BagToSet(threads), ok \in BOOLEAN : UnattendedSaveReturn(t, ok)
  \/ \E t \in BagToSet(threads), ok \in BOOLEAN : TailSaveReturn(t, ok)
  \/ \E t \in BagToSet(threads), ok \in BOOLEAN : AutoAdvanceAfterSave(t, ok)
  \/ \E t \in BagToSet(threads), ok \in BOOLEAN : AutoPostponeAfterSave(t, ok)
  \/ \E t \in BagToSet(threads), ok \in BOOLEAN : AutoDeleteReturn(t, ok)

\* a decision that settles the offered task: skip it, or keep its source
Decide ==
  /\ Idle
  /\ \/ SkipCurrentVideo
     \/ NextWithoutDelete
     \/ AutoSkipCurrentVideo
     \/ AutoNextWithoutDelete

\* the controls of the start form of the manual and of the automatic split
SeqForm ==
  \/ Idle /\ SelectBatchInputDir
  \/ Idle /\ SelectBatchOutputDir
  \/ \E v \in SliderStops : SetThreshold(v)
  \/ \E d \in TypedDurations : SetMinDuration(d)
  \/ ToggleUnattended

SeqNext ==
  \/ SeqForm
  \/ SeqCommand
  \/ Edit
  \/ SeqReturn

\* every invoke is answered, and the user goes on deciding offered tasks
SeqSpec ==
  /\ SeqInit
  /\ [][SeqNext]_vars
  /\ WF_vars(SeqReturn)
  /\ SF_vars(Decide)

(* ---- the segment editor on one loaded video ---- *)
\* The manual split has loaded the only task of a one-file batch and saved
\* its progress; the video has the frames 0..MaxEditorFrame and the user
\* works in the segment editor.
EditorFrames == 0..MaxEditorFrame

EditorInit ==
  /\ pipeline = "batch"
  /\ unattended = FALSE
  /\ starts = 1
  /\ batchInputDir = "in"
  /\ batchOutputDir = "out"
  /\ threshold = 70
  /\ minDuration = 20
  /\ useNewEnding = FALSE
  /\ newEndingVideo = ""
  /\ objs = <<[NewTask(1) EXCEPT !.status = "ready", !.frames = 1, !.metadata = 1]>>
  /\ batchTasks = <<1>>
  /\ currentTaskIndex = 0
  /\ isBatchMode = TRUE
  /\ videoMetadata = 1
  /\ allFrames = 1
  /\ isGeneratingSegments = FALSE
  /\ error = ""
  /\ hasSegments = FALSE
  /\ segmentsGenerated = FALSE
  /\ selectedSegments = <<>>
  /\ currentSelection = NoSel
  /\ isProcessing = FALSE
  /\ currentTaskCompleted = FALSE
  /\ skippedVideos = <<>>
  /\ threads = EmptyBag
  /\ postponed = 0
  /\ overlaps = 0
  /\ faults = 0
  /\ persisted = Sidecar(Progress(batchTasks, objs, currentTaskIndex))
  /\ FormDefaults
  /\ trace = <<Offer(1)>>

EditorNext ==
  \/ \E n \in EditorFrames : SelectFrame(n)
  \/ AddSegment
  \/ CancelSelection
  \/ \E i \in EditorFrames : RemoveSegment(i)

EditorSpec == EditorInit /\ [][EditorNext]_vars

(* ---- resuming from the progress sidecar ---- *)
\* The window is closed and the application opened again on the same
\* folders: every ref of the component is back at its initial value, the
\* pending invokes are gone, and the sidecar is what it was.
Reopen ==
  /\ starts' = 0
  /\ batchInputDir' = ""
  /\ batchOutputDir' = ""
  /\ threshold' = 70
  /\ minDuration' = 20
  /\ unattended' = FALSE
  /\ useNewEnding' = FALSE
  /\ newEndingVideo' = ""
  /\ objs' = <<>>
  /\ batchTasks' = <<>>
  /\ currentTaskIndex' = 0
  /\ isBatchMode' = FALSE
  /\ videoMetadata' = NoPath
  /\ allFrames' = NoPath
  /\ isGeneratingSegments' = FALSE
  /\ error' = ""
  /\ hasSegments' = FALSE
  /\ segmentsGenerated' = FALSE
  /\ selectedSegments' = <<>>
  /\ currentSelection' = NoSel
  /\ isProcessing' = FALSE
  /\ currentTaskCompleted' = FALSE
  /\ skippedVideos' = <<>>
  /\ threads' = EmptyBag
  /\ postponed' = 0
  /\ overlaps' = 0
  /\ faults' = 0
  /\ trace' = <<>>
  /\ UNCHANGED <<pipeline, persisted, concatVars>>

\* one command at a time, in the manual split without the segment editor
\* (tasks are skipped or postponed) and in the automatic split
ResumeCommand ==
  \/ Idle /\ StartBatchSplit
  \/ Idle /\ SkipCurrentVideo
  \/ Idle /\ PostponeCurrentVideo
  \/ Idle /\ StartAutoSplit
  \/ Idle /\ AutoSkipCurrentVideo
  \/ Idle /\ AutoPostponeCurrentVideo
  \/ Idle /\ AutoDeleteAndNext
  \/ Idle /\ AutoNextWithoutDelete

\* the backend answers a pending invoke
ResumeReturn ==
  \/ \E t \in BagToSet(threads), selected \in BOOLEAN : SelectBatchInputDirReturn(t, selected)
  \/ \E t \in BagToSet(threads), selected \in BOOLEAN : SelectBatchOutputDirReturn(t, selected)
  \/ \E t \in BagToSet(threads), n \in Listable, ok \in BOOLEAN : ListReturn(t, n, ok)
  \/ \E t \in BagToSet(threads), ok \in BOOLEAN : LoadProgressReturn(t, ok)
  \/ \E t \in BagToSet(threads), ok \in BOOLEAN : LoadMetaReturn(t, ok)
  \/ \E t \in BagToSet(threads), ok \in BOOLEAN : LoadFramesReturn(t, ok)
  \/ \E t \in BagToSet(threads), ok \in BOOLEAN : LoadSaveReturn(t, ok)
  \/ \E t \in BagToSet(threads), ok \in BOOLEAN : PreMetaReturn(t, ok)
  \/ \E t \in BagToSet(threads), ok \in BOOLEAN : PreFramesReturn(t, ok)
  \/ \E t \in BagToSet(threads), ok \in BOOLEAN : AdvanceAfterSave(t, ok)
  \/ \E t \in BagToSet(threads), ok \in BOOLEAN : PostponeAfterSave(t, ok)
  \/ \E t \in BagToSet(threads), n \in Listable, ok \in BOOLEAN : AutoListReturn(t, n, ok)
  \/ \E t \in BagToSet(threads), ok \in BOOLEAN : AutoLoadProgressReturn(t, ok)
  \/ \E t \in BagToSet(threads), ok \in BOOLEAN : ProcessMetaReturn(t, ok)
  \/ \E t \in BagToSet(threads), ok \in BOOLEAN : ProcessSplitReturn(t, ok)
  \/ \E t \in BagToSet(threads), ok \in BOOLEAN : UnattendedSaveReturn(t, ok)
  \/ \E t \in BagToSet(threads), ok \in BOOLEAN : TailSaveReturn(t, ok)
  \/ \E t \in BagToSet(threads), ok \in BOOLEAN : AutoAdvanceAfterSave(t, ok)
  \/ \E t \in BagToSet(threads), ok \in BOOLEAN : AutoPostponeAfterSave(t, ok)
  \/ \E t \in BagToSet(threads), ok \in BOOLEAN : AutoDeleteReturn(t, ok)

ResumeNext ==
  \/ SeqForm
  \/ ResumeCommand
  \/ ResumeReturn
  \/ Reopen

ResumeSpec == SeqInit /\ [][ResumeNext]_vars

(* ---- a preparation call that does not return ---- *)
\* The manual split in which the user skips or postpones.  Every invoke is
\* answered except, possibly, the preparation of the active task inside
\* loadCurrentTask: get_video_metadata and extract_all_frames may hang.
StallInit == Init /\ pipeline = "batch"

\* the only pending invokes are prefetches and the preparation of the
\* active task: the user waits for every other answer before the next click
Quiet ==
  \A t \in BagToSet(threads) : t.pc \in PrefetchPcs \cup {"load_meta", "load_frames"}

StallCommand ==
  \/ StartBatchSplit
  \/ Quiet /\ SkipCurrentVideo
  \/ Quiet /\ PostponeCurrentVideo

\* the preparation of the active task answers
StallPrepared ==
  \/ \E t \in BagToSet(threads), ok \in BOOLEAN : LoadMetaReturn(t, ok)
  \/ \E t \in BagToSet(threads), ok \in BOOLEAN : LoadFramesReturn(t, ok)

\* any other pending invoke answers
StallAnswered ==
  \/ \E t \in BagToSet(threads), selected \in BOOLEAN : SelectBatchInputDirReturn(t, selected)
  \/ \E t \in BagToSet(threads), selected \in BOOLEAN : SelectBatchOutputDirReturn(t, selected)
  \/ \E t \in BagToSet(threads), n \in Listable, ok \in BOOLEAN : ListReturn(t, n, ok)
  \/ \E t \in BagToSet(threads), ok \in BOOLEAN : LoadProgressReturn(t, ok)
  \/ \E t \in BagToSet(threads), ok \in BOOLEAN : LoadSaveReturn(t, ok)
  \/ \E t \in BagToSet(threads), ok \in BOOLEAN : PreMetaReturn(t, ok)
  \/ \E t \in BagToSet(threads), ok \in BOOLEAN : PreFramesReturn(t, ok)
  \/ \E t \in BagToSet(threads), ok \in BOOLEAN : AdvanceAfterSave(t, ok)
  \/ \E t \in BagToSet(threads), ok \in BOOLEAN : PostponeAfterSave(t, ok)

StallNext ==
  \/ Quiet /\ SelectBatchInputDir
  \/ Quiet /\ SelectBatchOutputDir
  \/ StallCommand
  \/ StallPrepared
  \/ StallAnswered

StallSpec ==
  /\ StallInit
  /\ [][StallNext]_vars
  /\ WF_vars(StallAnswered)

(* ---- video concat form (src/unnamed/part_004) ---- *)
MaxRangeLen == 3

\* the full-width comma, U+FF0C, as one character
FullWidthComma == "U+FF0C"

\* the characters the user types into the random count field
RangeChars == {"0", "2", "4", ",", FullWidthComma, "-", " "}

Digits == {"0", "2", "4"}

DigitValue(c) == IF c = "0" THEN 0 ELSE IF c = "2" THEN 2 ELSE 4

\* String.prototype.trim
RECURSIVE TrimStart(_)
TrimStart(s) ==
  IF s # <<>> /\ Head(s) = " " THEN TrimStart(Tail(s)) ELSE s

RECURSIVE TrimEnd(_)
TrimEnd(s) ==
  IF s # <<>> /\ s[Len(s)] = " " THEN TrimEnd(SubSeq(s, 1, Len(s) - 1)) ELSE s

Trim(s) == TrimEnd(TrimStart(s))

Includes(s, c) == \E i \in 1..Len(s) : s[i] = c

IndexOf(s, c) == CHOOSE i \in 1..Len(s) : s[i] = c /\ \A j \in 1..(i - 1) : s[j] # c

\* value.replace(a, b) with a string pattern: the first occurrence only
ReplaceFirst(s, a, b) ==
  IF Includes(s, a) THEN [s EXCEPT ![IndexOf(s, a)] = b] ELSE s

\* String.prototype.split on a one-character separator
RECURSIVE Split(_, _)
Split(s, c) ==
  IF ~Includes(s, c) THEN <<s>>
  ELSE <<SubSeq(s, 1, IndexOf(s, c) - 1)>> \o Split(SubSeq(s, IndexOf(s, c) + 1, Len(s)), c)

\* .map((s) => s.trim()).filter(Boolean)
NonEmpty(p) == p # <<>>

Parts(s, c) ==
  LET raw == Split(s, c) IN
  SelectSeq([k \in 1..Len(raw) |-> Trim(raw[k])], NonEmpty)

\* the value of a sequence of digits
RECURSIVE Decimal(_)
Decimal(s) ==
  IF s = <<>> THEN 0 ELSE 10 * Decimal(SubSeq(s, 1, Len(s) - 1)) + DigitValue(s[Len(s)])

AllDigits(s) == s # <<>> /\ \A i \in 1..Len(s) : s[i] \in Digits

NaN == [finite |-> FALSE, value |-> 0]

\* Number(str) on strings of RangeChars: white space is trimmed, the empty
\* string is 0, an optionally signed run of digits is its value, anything
\* else is NaN
Number(str) ==
  LET t == Trim(str) IN
  IF t = <<>> THEN [finite |-> TRUE, value |-> 0]
  ELSE IF AllDigits(t) THEN [finite |-> TRUE, value |-> Decimal(t)]
  ELSE IF Head(t) = "-" /\ AllDigits(Tail(t)) THEN [finite |-> TRUE, value |-> 0 - Decimal(Tail(t))]
  ELSE NaN

\* parseRandomCountRange answers null
NoRange == [min |-> 0, max |-> 0]

MinMax(minStr, maxStr) ==
  LET min == Number(minStr)
      max == Number(maxStr) IN
  IF ~min.finite \/ ~max.finite THEN NoRange
  ELSE IF min.value <= 0 \/ max.value <= 0 THEN NoRange
  ELSE IF min.value <= max.value THEN [min |-> min.value, max |-> max.value]
  ELSE [min |-> max.value, max |-> min.value]

parseRandomCountRange(value) ==
  LET normalized == Trim(ReplaceFirst(value, FullWidthComma, ",")) IN
  IF normalized = <<>> THEN NoRange
  ELSE IF Includes(normalized, ",")
  THEN (IF Len(Parts(normalized, ",")) # 2 THEN NoRange
        ELSE MinMax(Parts(normalized, ",")[1], Parts(normalized, ",")[2]))
  ELSE IF Includes(normalized, "-")
  THEN (IF Len(Parts(normalized, "-")) # 2 THEN NoRange
        ELSE MinMax(Parts(normalized, "-")[1], Parts(normalized, "-")[2]))
  ELSE MinMax(normalized, normalized)

\* the prefix startConcat looks for in String(error)
Incompatible == "INCOMPATIBLE_VIDEOS:"

\* what the backend rejects a concat call with: a compatibility error or
\* any other error
Rejections == {Str(Incompatible, "codec"), Str("", "ffmpeg")}

\* the result message of a successful concat
Done == Str("", "done")

\* the form can be edited while nothing is processed and no modal dialog
\* is open
CanEdit == pipeline = "concat" /\ ~isProcessing /\ ~showCompatDialog

concatMsgs == <<progressMsg, errorMsg, showCompatDialog, compatMessage>>

\* what the handlers of the concat form leave alone of the batch components
batchRest == <<cfgVars, objs, batchTasks, currentTaskIndex, isBatchMode,
               videoMetadata, error, batchOnly, currentTaskCompleted, skippedVideos,
               postponed, faults, persisted, trace>>

batchVars == <<batchRest, overlaps>>

\* selectInputDir up to await open(...): the button is disabled while
\* isProcessing, and the compatibility dialog is modal; a press while
\* another dialog of the form is open is counted against MaxOverlap
SelectInputDir ==
  /\ CanEdit
  /\ threads' = Spawn(threads, Thread("pick_concat_input", 0))
  /\ Issue
  /\ UNCHANGED <<inputDir, endingVideo, maxDepth, randomCountRange, runTimes, outputDir,
                 concatMsgs, isProcessing, batchRest>>

\* the folder dialog of selectInputDir answers: with a folder (one
\* representative for all), or with null when it was cancelled; the
\* handler looks neither at isProcessing nor at showCompatDialog
SelectInputDirReturn(t, selected) ==
  /\ pipeline = "concat"
  /\ t.pc = "pick_concat_input"
  /\ threads' = Kill(threads, t)
  /\ inputDir' = IF selected THEN "in" ELSE inputDir
  /\ UNCHANGED <<endingVideo, maxDepth, randomCountRange, runTimes, outputDir, concatMsgs,
                 isProcessing, batchVars>>

\* selectEndingVideo up to await open(...)
SelectEndingVideo ==
  /\ CanEdit
  /\ threads' = Spawn(threads, Thread("pick_concat_ending", 0))
  /\ Issue
  /\ UNCHANGED <<inputDir, endingVideo, maxDepth, randomCountRange, runTimes, outputDir,
                 concatMsgs, isProcessing, batchRest>>

\* the file dialog of selectEndingVideo answers
SelectEndingVideoReturn(t, selected) ==
  /\ pipeline = "concat"
  /\ t.pc = "pick_concat_ending"
  /\ threads' = Kill(threads, t)
  /\ endingVideo' = IF selected THEN "ending.mp4" ELSE endingVideo
  /\ UNCHANGED <<inputDir, maxDepth, randomCountRange, runTimes, outputDir,
                 concatMsgs, isProcessing, batchVars>>

\* selectOutputDir up to await open(...)
SelectOutputDir ==
  /\ CanEdit
  /\ threads' = Spawn(threads, Thread("pick_concat_output", 0))
  /\ Issue
  /\ UNCHANGED <<inputDir, endingVideo, maxDepth, randomCountRange, runTimes, outputDir,
                 concatMsgs, isProcessing, batchRest>>

\* the folder dialog of selectOutputDir answers
SelectOutputDirReturn(t, selected) ==
  /\ pipeline = "concat"
  /\ t.pc = "pick_concat_output"
  /\ threads' = Kill(threads, t)
  /\ outputDir' = IF selected THEN "out" ELSE outputDir
  /\ UNCHANGED <<inputDir, endingVideo, maxDepth, randomCountRange, runTimes, concatMsgs,
                 isProcessing, batchVars>>

SetMaxDepth(d) ==
  /\ CanEdit
  /\ maxDepth' = d
  /\ UNCHANGED <<inputDir, endingVideo, randomCountRange, runTimes, outputDir, concatMsgs,
                 isProcessing, threads, batchVars>>

SetRunTimes(n) ==
  /\ CanEdit
  /\ runTimes' = n
  /\ UNCHANGED <<inputDir, endingVideo, maxDepth, randomCountRange, outputDir, concatMsgs,
                 isProcessing, threads, batchVars>>

\* a character is typed at the end of the random count field
TypeRange(c) ==
  /\ CanEdit
  /\ Len(randomCountRange) < MaxRangeLen
  /\ randomCountRange' = Append(randomCountRange, c)
  /\ UNCHANGED <<inputDir, endingVideo, maxDepth, runTimes, outputDir, concatMsgs,
                 isProcessing, threads, batchVars>>

\* the last character of the random count field is deleted
EraseRange ==
  /\ CanEdit
  /\ randomCountRange # <<>>
  /\ randomCountRange' = SubSeq(randomCountRange, 1, Len(randomCountRange) - 1)
  /\ UNCHANGED <<inputDir, endingVideo, maxDepth, runTimes, outputDir, concatMsgs,
                 isProcessing, threads, batchVars>>

\* startConcat up to invoke("concat_videos"), or to the return of a failed
\* validation
StartConcat ==
  /\ pipeline = "concat"
  /\ ~isProcessing
  /\ ~showCompatDialog
  /\ progressMsg' = NoMsg
  /\ IF inputDir = "" THEN
       errorMsg' = Str("", "no input dir") /\ UNCHANGED <<isProcessing, threads>>
     ELSE IF outputDir = "" THEN
       errorMsg' = Str("", "no output dir") /\ UNCHANGED <<isProcessing, threads>>
     ELSE IF maxDepth < 0 THEN
       errorMsg' = Str("", "negative depth") /\ UNCHANGED <<isProcessing, threads>>
     ELSE IF parseRandomCountRange(randomCountRange) = NoRange THEN
       errorMsg' = Str("", "bad random count") /\ UNCHANGED <<isProcessing, threads>>
     ELSE IF runTimes <= 0 THEN
       errorMsg' = Str("", "bad run times") /\ UNCHANGED <<isProcessing, threads>>
     ELSE /\ errorMsg' = NoMsg
          /\ isProcessing' = TRUE
          /\ threads' = Spawn(threads, Thread("concat", 0))
  /\ UNCHANGED <<inputDir, endingVideo, maxDepth, randomCountRange, runTimes, outputDir,
                 showCompatDialog, compatMessage, batchVars>>

\* concat_videos answered inside startConcat
ConcatReturn(t, ok, err) ==
  /\ pipeline = "concat"
  /\ t.pc = "concat"
  /\ threads' = Kill(threads, t)
  /\ isProcessing' = FALSE
  /\ IF ok
     THEN /\ progressMsg' = Done
          /\ UNCHANGED <<errorMsg, showCompatDialog, compatMessage>>
     ELSE IF err.prefix = Incompatible
     THEN /\ compatMessage' = Str("", err.rest)
          /\ showCompatDialog' = TRUE
          /\ UNCHANGED <<progressMsg, errorMsg>>
     ELSE /\ errorMsg' = err
          /\ UNCHANGED <<progressMsg, showCompatDialog, compatMessage>>
  /\ UNCHANGED <<inputDir, endingVideo, maxDepth, randomCountRange, runTimes, outputDir, batchVars>>

\* concatDirect: no call is made, the dialog is closed and a hint is shown
ConcatDirect ==
  /\ pipeline = "concat"
  /\ showCompatDialog
  /\ showCompatDialog' = FALSE
  /\ errorMsg' = Str("", "direct concat may fail")
  /\ UNCHANGED <<inputDir, endingVideo, maxDepth, randomCountRange, runTimes, outputDir,
                 progressMsg, compatMessage, isProcessing, threads, batchVars>>

\* a concatWithReencode whose catch block is that of startConcat: a
\* compatibility error opens the dialog again; the variant against which
\* the retry is tested
ConcatWithReencodeReturnAsks(t, ok, err) ==
  /\ pipeline = "concat"
  /\ t.pc = "reencode"
  /\ threads' = Kill(threads, t)
  /\ isProcessing' = FALSE
  /\ IF ok
     THEN /\ progressMsg' = Done
          /\ UNCHANGED <<errorMsg, showCompatDialog, compatMessage>>
     ELSE IF err.prefix = Incompatible
     THEN /\ compatMessage' = Str("", err.rest)
          /\ showCompatDialog' = TRUE
          /\ UNCHANGED <<progressMsg, errorMsg>>
     ELSE /\ errorMsg' = err
          /\ UNCHANGED <<progressMsg, showCompatDialog, compatMessage>>
  /\ UNCHANGED <<inputDir, endingVideo, maxDepth, randomCountRange, runTimes, outputDir, batchVars>>

\* concatWithReencode up to invoke("concat_videos_with_reencode"), or to the
\* return of a failed validation (the finally block clears isProcessing)
ConcatWithReencode ==
  /\ pipeline = "concat"
  /\ showCompatDialog
  /\ showCompatDialog' = FALSE
  /\ progressMsg' = NoMsg
  /\ IF parseRandomCountRange(randomCountRange) = NoRange THEN
       errorMsg' = Str("", "bad random count") /\ UNCHANGED <<isProcessing, threads>>
     ELSE IF runTimes <= 0 THEN
       errorMsg' = Str("", "bad run times") /\ UNCHANGED <<isProcessing, threads>>
     ELSE /\ errorMsg' = NoMsg
          /\ isProcessing' = TRUE
          /\ threads' = Spawn(threads, Thread("reencode", 0))
  /\ UNCHANGED <<inputDir, endingVideo, maxDepth, randomCountRange, runTimes, outputDir,
                 compatMessage, batchVars>>

\* concat_videos_with_reencode answered inside concatWithReencode
ConcatWithReencodeReturn(t, ok, err) ==
  /\ pipeline = "concat"
  /\ t.pc = "reencode"
  /\ threads' = Kill(threads, t)
  /\ isProcessing' = FALSE
  /\ IF ok
     THEN progressMsg' = Done /\ UNCHANGED errorMsg
     ELSE errorMsg' = err /\ UNCHANGED progressMsg
  /\ UNCHANGED <<inputDir, endingVideo, maxDepth, randomCountRange, runTimes, outputDir,
                 showCompatDialog, compatMessage, batchVars>>

\* cancelDialog, and the dismissal of the dialog through its v-model
CancelDialog ==
  /\ pipeline = "concat"
  /\ showCompatDialog
  /\ showCompatDialog' = FALSE
  /\ UNCHANGED <<inputDir, endingVideo, maxDepth, randomCountRange, runTimes, outputDir,
                 progressMsg, errorMsg, compatMessage, isProcessing, threads,
                 batchVars>>

ConcatInit ==
  /\ pipeline = "concat"
  /\ unattended = FALSE
  /\ Mounted

ConcatNext ==
  \/ SelectInputDir
  \/ \E t \in BagToSet(threads), selected \in BOOLEAN : SelectInputDirReturn(t, selected)
  \/ SelectEndingVideo
  \/ \E t \in BagToSet(threads), selected \in BOOLEAN : SelectEndingVideoReturn(t, selected)
  \/ SelectOutputDir
  \/ \E t \in BagToSet(threads), selected \in BOOLEAN : SelectOutputDirReturn(t, selected)
  \/ \E d \in {-1, 2} : SetMaxDepth(d)
  \/ \E n \in {0, 1} : SetRunTimes(n)
  \/ \E c \in RangeChars : TypeRange(c)
  \/ EraseRange
  \/ StartConcat
  \/ \E t \in BagToSet(threads), ok \in BOOLEAN, err \in Rejections : ConcatReturn(t, ok, err)
  \/ ConcatDirect
  \/ ConcatWithReencode
  \/ \E t \in BagToSet(threads), ok \in BOOLEAN, err \in Rejections :
       ConcatWithReencodeReturn(t, ok, err)
  \/ CancelDialog

ConcatSpec == ConcatInit /\ [][ConcatNext]_vars

(* ---- a scripted session of the manual batch split ---- *)
\* the folder of the session: list_mp4_files answers with these three files
ScenarioFiles == <<"a.mp4", "b.mp4", "c.mp4">>

\* the range the user confirms
ScenarioRange == [start_frame |-> 10, end_frame |-> 50]

\* the user looks at the video with path p and no command handler is
\* suspended
OnTask(p) ==
  /\ Idle
  /\ isBatchMode
  /\ currentTaskIndex < Len(batchTasks)
  /\ objs[Active].path = p

\* the videos the user completes: b, and c when it is offered again
Completing == OnTask(2) \/ (OnTask(3) /\ postponed = 1)

ScenarioInit == pipeline = "batch" /\ unattended = FALSE /\ Mounted

ScenarioClickStart ==
  /\ Completing
  /\ selectedSegments = <<>>
  /\ currentSelection = NoSel
  /\ ~segmentsGenerated
  /\ SelectFrame(ScenarioRange.start_frame)

ScenarioClickEnd ==
  /\ Completing
  /\ currentSelection = [start |-> ScenarioRange.start_frame,
                         end |-> ScenarioRange.start_frame]
  /\ SelectFrame(ScenarioRange.end_frame)

ScenarioConfirm ==
  /\ Completing
  /\ currentSelection = [start |-> ScenarioRange.start_frame,
                         end |-> ScenarioRange.end_frame]
  /\ AddSegment

ScenarioGenerate ==
  /\ Completing
  /\ selectedSegments = <<ScenarioRange>>
  /\ GenerateCurrentVideo

\* the start button is pressed once
ScenarioStart == starts = 0 /\ StartBatchSplit

ScenarioKeep == Completing /\ NextWithoutDelete

ScenarioSkip == OnTask(1) /\ SkipCurrentVideo

ScenarioPostpone == OnTask(3) /\ postponed = 0 /\ PostponeCurrentVideo

\* the session: the calls made for the video on screen succeed, the
\* prefetches in the background succeed or fail, and every answer arrives
\* at any time
ScenarioNext ==
  \/ SelectBatchInputDir
  \/ SelectBatchOutputDir
  \/ \E t \in BagToSet(threads), selected \in BOOLEAN : SelectBatchInputDirReturn(t, selected)
  \/ \E t \in BagToSet(threads), selected \in BOOLEAN : SelectBatchOutputDirReturn(t, selected)
  \/ ScenarioStart
  \/ ScenarioSkip
  \/ ScenarioClickStart
  \/ ScenarioClickEnd
  \/ ScenarioConfirm
  \/ ScenarioGenerate
  \/ ScenarioKeep
  \/ ScenarioPostpone
  \/ \E t \in BagToSet(threads) : ListReturn(t, Len(ScenarioFiles), TRUE)
  \/ \E t \in BagToSet(threads) : LoadProgressReturn(t, TRUE)
  \/ \E t \in BagToSet(threads) : LoadMetaReturn(t, TRUE)
  \/ \E t \in BagToSet(threads) : LoadFramesReturn(t, TRUE)
  \/ \E t \in BagToSet(threads) : LoadSaveReturn(t, TRUE)
  \/ \E t \in BagToSet(threads), ok \in BOOLEAN : PreMetaReturn(t, ok)
  \/ \E t \in BagToSet(threads), ok \in BOOLEAN : PreFramesReturn(t, ok)
  \/ \E t \in BagToSet(threads) : AdvanceAfterSave(t, TRUE)
  \/ \E t \in BagToSet(threads) : PostponeAfterSave(t, TRUE)
  \/ \E t \in BagToSet(threads) : GenerateReturn(t, TRUE)

ScenarioSpec == ScenarioInit /\ [][ScenarioNext]_vars

(* ---- properties ---- *)
Status(k) == objs[batchTasks[k]].status

Positions == 1..Len(batchTasks)

OfferAt(i, p) == trace[i].ev = "offer" /\ trace[i].path = p

OfferCount(p) == Cardinality({i \in 1..Len(trace) : OfferAt(i, p)})

PostponeCount(p) ==
  Cardinality({i \in 1..Len(trace) : trace[i].ev = "postpone" /\ trace[i].path = p})

Finished ==
  starts > 0 /\ ~isBatchMode /\ Len(batchTasks) > 0 /\ currentTaskIndex >= Len(batchTasks)

\* a task postponed at step i of the history is offered again at step j only
\* when every task that was behind it has been offered in between
PostponeOrderOK ==
  \A i \in 1..Len(trace) :
    trace[i].ev = "postpone" =>
      \A j \in (i + 1)..Len(trace) :
        OfferAt(j, trace[i].path) =>
          \A q \in trace[i].behind : \E k \in (i + 1)..(j - 1) : OfferAt(k, q)

PrepPcs == {"load_meta", "load_frames", "pre_meta", "pre_frames"}

\* number of preparation requests in flight for path p
PrepInFlight(p) ==
  BagCardinality([t \in {u \in BagToSet(threads) :
                           u.pc \in PrepPcs /\ objs[u.obj].path = p} |-> threads[t]])

\* a generation or processing call for the active task is in flight
GenInFlight ==
  /\ isBatchMode
  /\ currentTaskIndex < Len(batchTasks)
  /\ \E t \in BagToSet(threads) :
       t.pc \in {"generate", "process_meta", "process_split"} /\ t.obj = Active

\* C2: in every reachable state at most one task of the list has status
\* processing
C2_AtMostOneProcessing ==
  Cardinality({k \in Positions : Status(k) = "processing"}) <= 1

\* C3: never are two preparation requests (get_video_metadata or
\* extract_all_frames) in flight at the same time for the same task path
C3_SingleFlight ==
  \A p \in 1..MaxFiles : PrepInFlight(p) <= 1

\* the step is the answer to list_mp4_files that installs a new task list:
\* a new batch run begins
NewRun ==
  \E t \in BagToSet(threads), n \in 1..MaxFiles :
    \/ ListReturn(t, n, TRUE)
    \/ AutoListReturn(t, n, TRUE)
    \/ RemoveListReturn(t, n, TRUE)

\* C4: within a batch run currentTaskIndex never decreases, and no step
\* puts a task whose status is completed or skipped at currentTaskIndex
\* with status loading, ready or processing
C4_NoReactivation ==
  [][/\ NewRun \/ currentTaskIndex' >= currentTaskIndex
     /\ \A r \in 1..Len(objs) :
          ((\E k \in Positions : batchTasks[k] = r) /\ objs[r].status \in Terminal) =>
            ~(/\ currentTaskIndex' < Len(batchTasks')
              /\ batchTasks'[currentTaskIndex' + 1] = r
              /\ objs'[r].status \in {"loading", "ready", "processing"})]_vars

\* C5: a postponed task is offered again only after every task that was
\* behind it in the list at the time of the postponement has been offered
C5_PostponedAfterAllBehind == PostponeOrderOK

\* C6: while a generation or processing call for the active task is in
\* flight, a skip or postpone changes no task status, not the task order and
\* not currentTaskIndex
C6_SkipPostponeOnlyWhenEditing ==
  [][(GenInFlight /\ (\/ SkipCurrentVideo
                      \/ PostponeCurrentVideo
                      \/ AutoSkipCurrentVideo
                      \/ AutoPostponeCurrentVideo))
       => UNCHANGED <<objs, batchTasks, currentTaskIndex>>]_vars

\* C7: in unattended mode a failed task never blocks the batch: while the
\* batch is on and a task is marked error, a handler is still running that
\* advances without any user action
C7_FailureNeverBlocks ==
  (pipeline = "auto" /\ unattended /\ isBatchMode
     /\ \E k \in Positions : Status(k) = "error")
    => Handlers(threads) > 0

\* C8: when the delete call of deleteAndNext fails, the task's status is
\* completed afterwards and the error field holds the error
C8_DeleteFailureCompleted ==
  [][\A t \in BagToSet(threads) :
       (DeleteReturn(t, FALSE) \/ AutoDeleteReturn(t, FALSE)) =>
         (objs'[t.obj].status = "completed" /\ error' # "")]_vars

\* position reached by an advance from idx: the first position behind idx
\* that is past the end of the list or whose task is not completed or skipped
IsNextEligible(idx, j) ==
  /\ j > idx
  /\ \A i \in (idx + 1)..(j - 1) : i < Len(batchTasks) /\ Status(i + 1) \in Terminal
  /\ j < Len(batchTasks) => Status(j + 1) \notin Terminal

\* every status other than that of object r is left as it was
OthersUnchanged(r) ==
  /\ Len(objs') = Len(objs)
  /\ \A q \in 1..Len(objs) : q # r => objs'[q] = objs[q]

\* C9: a successful generation in attended mode leaves the task, the order
\* and the index as they are and waits for the disposition; keep, and delete
\* with a successful delete call, mark the task completed and change no other
\* status; the advance that follows moves currentTaskIndex to the next
\* eligible position and changes no status except that of the new active task
C9_DispositionCompletesThenAdvances ==
  [][/\ \A t \in BagToSet(threads) :
          GenerateReturn(t, TRUE) =>
            /\ segmentsGenerated'
            /\ threads' = Kill(threads, t)
            /\ UNCHANGED <<objs, batchTasks, currentTaskIndex, isBatchMode>>
     /\ (NextWithoutDelete \/ AutoNextWithoutDelete) =>
          /\ objs'[Active].status = "completed"
          /\ OthersUnchanged(Active)
          /\ UNCHANGED <<batchTasks, currentTaskIndex>>
     /\ \A t \in BagToSet(threads) :
          (DeleteReturn(t, TRUE) \/ AutoDeleteReturn(t, TRUE)) =>
            /\ objs'[t.obj].status = "completed"
            /\ OthersUnchanged(t.obj)
            /\ UNCHANGED <<batchTasks, currentTaskIndex>>
     /\ \A t \in BagToSet(threads), ok \in BOOLEAN :
          (AdvanceAfterSave(t, ok) \/ AutoAdvanceAfterSave(t, ok)) =>
            /\ IsNextEligible(currentTaskIndex, currentTaskIndex')
            /\ batchTasks' = batchTasks
            /\ isBatchMode' = (isBatchMode /\ currentTaskIndex' < Len(batchTasks))
            /\ IF currentTaskIndex' < Len(batchTasks)
               THEN /\ OthersUnchanged(batchTasks[currentTaskIndex' + 1])
                    /\ objs'[batchTasks[currentTaskIndex' + 1]].status
                         \in {"loading", "ready", "processing"}
               ELSE objs' = objs]_vars

\* the first task was generated and kept, and the second one is now offered
C9_Witness ==
  /\ pipeline = "batch"
  /\ isBatchMode
  /\ Len(batchTasks) = 2
  /\ currentTaskIndex = 1
  /\ Status(1) = "completed"
  /\ Status(2) \in {"loading", "ready"}
  /\ ~segmentsGenerated
  /\ overlaps = 0

\* C10: confirming generation with an empty selection issues no generate
\* call and leaves isGeneratingSegments false and segmentsGenerated, every
\* task status, the task order and currentTaskIndex unchanged
C10_EmptySelectionRejected ==
  [][(GenerateCurrentVideo /\ Len(selectedSegments) = 0) =>
       /\ threads' = threads
       /\ ~isGeneratingSegments'
       /\ error' # ""
       /\ UNCHANGED <<segmentsGenerated, objs, batchTasks, currentTaskIndex,
                      isBatchMode, selectedSegments, currentSelection>>]_vars

\* the generate button was pressed with an empty selection and refused
C10_Witness ==
  /\ pipeline = "batch"
  /\ isBatchMode
  /\ error = "empty selection"
  /\ Len(selectedSegments) = 0
  /\ ~isGeneratingSegments
  /\ ~segmentsGenerated

\* first offers happen in listing order without gaps, and no task is offered
\* more often than once plus the number of its postponements
\* the queue was built from the listing alone: no checkpoint was restored
FromListing == \A j \in 1..Len(trace) : trace[j].ev # "resume"

VisitOrderOK ==
  FromListing =>
    /\ \A j \in 1..Len(trace) :
         trace[j].ev = "offer" =>
           \A q \in 1..(trace[j].path - 1) : \E k \in 1..(j - 1) : OfferAt(k, q)
    /\ \A p \in 1..MaxFiles : OfferCount(p) <= 1 + PostponeCount(p)
    /\ PostponeOrderOK
    /\ Finished => \A p \in 1..Len(batchTasks) : OfferCount(p) = 1 + PostponeCount(p)

\* C1: when the user decides each offered task, one command at a time, every
\* task of a queue built from a non-empty listing (no checkpoint restored) is
\* offered exactly once plus once per postponement, first offers in listing
\* order and postponed tasks after the tasks behind them, and the batch
\* eventually is finished
C1_VisitsAllThenFinished ==
  /\ []VisitOrderOK
  /\ (isBatchMode ~> Finished)

\* a batch of MaxFiles tasks with a postponement, a skip and a kept
\* generation has finished
C1_Witness ==
  /\ pipeline = "batch"
  /\ FromListing
  /\ Finished
  /\ Len(batchTasks) = MaxFiles
  /\ \E p \in 1..MaxFiles : PostponeCount(p) > 0
  /\ \E k \in Positions : Status(k) = "completed"
  /\ \E k \in Positions : Status(k) = "skipped"

(* ---- the progress sidecar ---- *)
\* the progress a save issued in this state would carry
InMemory == Progress(batchTasks, objs, currentTaskIndex)

\* C11: whenever no invoke is pending in a started manual or automatic
\* batch and every call so far was answered with success, the sidecar holds the in-memory batch state: the same tasks in the
\* same order with their statuses and cached preparation data, and the same
\* current index
C11_PersistedIsCurrent ==
  (/\ pipeline \in {"batch", "auto"}
   /\ Len(batchTasks) > 0
   /\ threads = EmptyBag
   /\ faults = 0)
    => persisted = Sidecar(InMemory)

SavePcs == {"load_save", "advance_save", "postpone_save", "tail_save", "unattended_save"}

\* number of save_batch_progress calls in flight
SavesInFlight ==
  BagCardinality([t \in {u \in BagToSet(threads) : u.pc \in SavePcs} |-> threads[t]])

\* C12: checkpoint writes are serialized: never is a save_batch_progress
\* call issued while an earlier one is still in flight
C12_SavesSerialized == SavesInFlight <= 1

\* the state of a freshly mounted component whose loadBatchProgress took
\* the answer of load_batch_progress from a sidecar written with the
\* in-memory state
LoadedBack ==
  Restore(<<>>, <<>>, 0, ReadSidecar(WriteSidecar(persisted, InMemory, TRUE), TRUE))

\* the task list tasks, read in heap o, holds the task records recs: the
\* same path, name, status, cached metadata and cached frames at every
\* position
SameTasks(tasks, o, recs) ==
  /\ Len(tasks) = Len(recs)
  /\ \A k \in 1..Len(recs) :
       /\ o[tasks[k]].path = recs[k].path
       /\ o[tasks[k]].name = recs[k].name
       /\ o[tasks[k]].status = recs[k].status
       /\ o[tasks[k]].metadata = recs[k].metadata
       /\ o[tasks[k]].frames = recs[k].frames

\* a progress argument has the fields of BatchProgress and its tasks the
\* fields of VideoTask: no segment selection
NoSelectionSaved(progress) ==
  /\ DOMAIN progress = {"input_dir", "output_dir", "tasks", "current_index"}
  /\ \A k \in 1..Len(progress.tasks) :
       DOMAIN progress.tasks[k] = {"path", "name", "status", "frames", "metadata"}

\* a save_batch_progress call issued by this step carries the batch state
\* the step leaves
IssuedSaves ==
  {u \in BagToSet(threads') :
     u.pc \in SavePcs /\ CopiesIn(u, threads') > CopiesIn(u, threads)}

\* the step continues with loadCurrentTask on the list st.tasks: the tasks
\* stay in place with their paths, names and cached data; only the task
\* made active has a new status, and the current index has moved from
\* st.idx over completed and skipped tasks only
TookCheckpoint(st) ==
  /\ batchTasks' = st.tasks
  /\ \A k \in 1..Len(st.tasks) :
       LET r == objs'[st.tasks[k]] IN
       /\ r.path = st.o[st.tasks[k]].path
       /\ r.name = st.o[st.tasks[k]].name
       /\ r.frames = st.o[st.tasks[k]].frames
       /\ r.metadata = st.o[st.tasks[k]].metadata
       /\ r.status = st.o[st.tasks[k]].status \/ k = currentTaskIndex' + 1
  /\ currentTaskIndex' >= st.idx
  /\ \A i \in st.idx..(currentTaskIndex' - 1) :
       i < Len(st.tasks) /\ st.o[st.tasks[i + 1]].status \in Terminal
  /\ selectedSegments' = <<>> /\ currentSelection' = NoSel

NoTerminalOffered ==
  \A i \in 1..Len(trace) :
    trace[i].ev = "resume" =>
      \A j \in (i + 1)..Len(trace) :
        trace[j].ev = "offer" => trace[j].path \notin trace[i].behind

\* the step offers the first task of checkpoint p at or after the saved
\* index that is neither completed nor skipped, or ends the batch when
\* there is none
OffersFirstEligible(p) ==
  /\ currentTaskIndex' >= p.current_index
  /\ \A i \in p.current_index..(currentTaskIndex' - 1) :
       i < Len(p.tasks) /\ p.tasks[i + 1].status \in Terminal
  /\ IF currentTaskIndex' < Len(p.tasks)
     THEN /\ p.tasks[currentTaskIndex' + 1].status \notin Terminal
          /\ trace'[Len(trace')] = Offer(p.tasks[currentTaskIndex' + 1].path)
          /\ objs'[batchTasks'[currentTaskIndex' + 1]].status
               \in {"loading", "ready", "processing"}
          /\ isBatchMode'
     ELSE /\ ~isBatchMode'
          /\ trace'[Len(trace')].ev = "resume"

\* C14: after a resume from a checkpoint no task recorded there as
\* completed or skipped is ever offered as the active task, and the first
\* active task is the first one at or after the saved current index whose
\* status is neither completed nor skipped
C14_ResumeSkipsTerminal ==
  /\ []NoTerminalOffered
  /\ [][\A t \in BagToSet(threads) :
          ((LoadProgressReturn(t, TRUE) \/ AutoLoadProgressReturn(t, TRUE))
             /\ persisted # NoSidecar) => OffersFirstEligible(Saved(persisted))]_vars

\* a resume from a checkpoint that records a completed or skipped task
\* offered its first eligible task, and the batch went on to offer another
C14_Witness ==
  /\ Len(trace) >= 3
  /\ trace[1].ev = "resume"
  /\ trace[1].behind # {}
  /\ trace[2].ev = "offer"
  /\ \E j \in 3..Len(trace) : trace[j].ev = "offer"

\* the list is the fresh listing of n paths, in listing order, with every
\* task pending but the one at index 0, which has just been made active
FreshListing(n) ==
  /\ Len(batchTasks') = n
  /\ \A k \in 1..n :
       /\ objs'[batchTasks'[k]].path = k
       /\ objs'[batchTasks'[k]].frames = NoPath
       /\ objs'[batchTasks'[k]].metadata = NoPath
       /\ objs'[batchTasks'[k]].status
            = IF k = 1 THEN objs'[batchTasks'[1]].status ELSE "pending"
  /\ objs'[batchTasks'[1]].status \in {"loading", "processing"}
  /\ currentTaskIndex' = 0

\* C15: a checkpoint load that fails (the sidecar is missing or malformed)
\* raises no error out of loadBatchProgress: the failure sets no error
\* message, and the batch goes on with the fresh listing, all tasks pending
\* and the current index 0, whose task is offered
C15_LoadFailureIgnored ==
  [][\A t \in BagToSet(threads) :
       (\E ok \in BOOLEAN :
          /\ ReadSidecar(persisted, ok) \in {NoCheckpoint, Rejected}
          /\ LoadProgressReturn(t, ok) \/ AutoLoadProgressReturn(t, ok)) =>
         /\ error' \in {"", error}
         /\ isBatchMode'
         /\ FreshListing(Len(batchTasks))
         /\ trace' = <<Offer(1)>>
         /\ \E u \in BagToSet(threads') : u.pc \in {"load_meta", "process_meta"}]_vars

\* the application was reopened on a folder that holds a sidecar, the load
\* of the sidecar failed, and the first listed task is being prepared
C15_Witness ==
  /\ persisted # NoSidecar
  /\ trace = <<Offer(1)>>
  /\ Len(objs) = MaxFiles
  /\ Len(batchTasks) = MaxFiles
  /\ currentTaskIndex = 0
  /\ \E u \in BagToSet(threads) : u.pc \in {"load_meta", "process_meta"}

\* position j is the first one from i0 on that is past the end of the list
\* or whose task is not completed or skipped
IsFirstEligibleFrom(i0, j) ==
  /\ j >= i0
  /\ \A i \in i0..(j - 1) : i < Len(batchTasks) /\ Status(i + 1) \in Terminal
  /\ j < Len(batchTasks) => Status(j + 1) \notin Terminal

\* the step made the task at the new current index active and changed no
\* other task, or ended the batch
AdvanceCompleted ==
  /\ batchTasks' = batchTasks
  /\ IF currentTaskIndex' < Len(batchTasks)
     THEN /\ OthersUnchanged(batchTasks[currentTaskIndex' + 1])
          /\ objs'[batchTasks[currentTaskIndex' + 1]].status
               \in {"loading", "ready", "processing"}
          /\ isBatchMode' = isBatchMode
     ELSE objs' = objs /\ ~isBatchMode'

\* the step changed statuses only from pending to loading (prefetches
\* started by preloadNextTasks)
OnlyPrefetchStarted ==
  /\ Len(objs') = Len(objs)
  /\ \A r \in 1..Len(objs) :
       \/ objs'[r] = objs[r]
       \/ objs[r].status = "pending" /\ objs'[r] = [objs[r] EXCEPT !.status = "loading"]

\* C16: a failing checkpoint write is not fatal: when save_batch_progress
\* fails, the sidecar keeps its content, no error is shown, the failure
\* itself changes neither the task list nor the index, and the operation
\* that triggered the save goes on as after a successful write: skip, keep
\* and delete advance to the next eligible task, postpone offers the task
\* now at the current index, a load starts its prefetches
C16_SaveFailureNonFatal ==
  [][\A t \in BagToSet(threads) :
       /\ (\/ AdvanceAfterSave(t, FALSE)
           \/ AutoAdvanceAfterSave(t, FALSE)
           \/ UnattendedSaveReturn(t, FALSE)) =>
            /\ persisted' = persisted
            /\ error' \in {error, ""}
            /\ IsFirstEligibleFrom(currentTaskIndex + 1, currentTaskIndex')
            /\ AdvanceCompleted
       /\ (PostponeAfterSave(t, FALSE) \/ AutoPostponeAfterSave(t, FALSE)) =>
            /\ persisted' = persisted
            /\ error' \in {error, ""}
            /\ IsFirstEligibleFrom(currentTaskIndex, currentTaskIndex')
            /\ AdvanceCompleted
       /\ LoadSaveReturn(t, FALSE) =>
            /\ persisted' = persisted
            /\ UNCHANGED <<batchTasks, currentTaskIndex, isBatchMode, error>>
            /\ OnlyPrefetchStarted
       /\ TailSaveReturn(t, FALSE) =>
            /\ persisted' = persisted
            /\ UNCHANGED <<objs, batchTasks, currentTaskIndex, isBatchMode, error>>]_vars

\* every checkpoint write of the run failed, and yet the first task was
\* skipped or completed and the batch went on to offer the second one
C16_Witness ==
  /\ persisted = NoSidecar
  /\ Len(batchTasks) = MaxFiles
  /\ currentTaskIndex = 1
  /\ Status(1) \in Terminal
  /\ Status(2) \in {"loading", "ready", "processing"}
  /\ trace = <<Offer(1), Offer(2)>>

\* the list holds one task per listed path 1..n in listing order, without
\* cached data, every task pending except possibly the first, whose status
\* is first
QueueBuilt(n, first) ==
  /\ Len(batchTasks') = n
  /\ \A k \in 1..n :
       /\ batchTasks'[k] = Len(objs) + k
       /\ objs'[batchTasks'[k]] = [path |-> k,
                                   name |-> [file |-> k],
                                   status |-> IF k = 1 THEN first ELSE "pending",
                                   frames |-> NoPath,
                                   metadata |-> NoPath]
  /\ \A r \in 1..Len(objs) : objs'[r] = objs[r]
  /\ currentTaskIndex' = 0
  /\ isBatchMode'

\* the start whose listing t answers was rejected: an error is shown, and
\* the answer enters no batch mode, installs no task list and issues no
\* invoke
StartRejected(t) ==
  /\ error' = "no mp4 files"
  /\ threads' = Kill(threads, t)
  /\ UNCHANGED <<isBatchMode, batchTasks, currentTaskIndex, objs>>

\* C17: a start on a non-empty listing builds one task per listed path, in
\* listing order, all pending, with current index 0, and goes on to look
\* for a checkpoint (the remove-ending batch, which has none, makes the
\* first task active at once); a start on an empty listing is rejected with
\* an error, batch mode is not entered, no task list is installed and no
\* preparation is requested
C17_StartBuildsQueue ==
  [][\A t \in BagToSet(threads), n \in Listable :
       /\ (ListReturn(t, n, TRUE) \/ AutoListReturn(t, n, TRUE)) =>
            IF n > 0
            THEN /\ QueueBuilt(n, "pending")
                 /\ threads' = Spawn(Kill(threads, t), Thread("load_progress", 0))
                 /\ UNCHANGED error
            ELSE StartRejected(t)
       /\ RemoveListReturn(t, n, TRUE) =>
            IF n > 0
            THEN /\ QueueBuilt(n, "processing")
                 /\ threads' = Spawn(Kill(threads, t),
                                     Frame("remove_meta", batchTasks'[1], 0))
            ELSE StartRejected(t)]_vars

\* the listing answered with MaxFiles paths: the queue is built, all
\* pending, and the checkpoint is being looked for
C17_Witness ==
  /\ isBatchMode
  /\ Len(batchTasks) = MaxFiles
  /\ \A k \in Positions : Status(k) = "pending"
  /\ currentTaskIndex = 0
  /\ threads = SetToBag({Thread("load_progress", 0)})

\* number of positions of the list lst, read in heap o, that hold path p
Occurrences(lst, o, p) == Cardinality({k \in 1..Len(lst) : o[lst[k]].path = p})

\* the tasks other than the one postponeCurrentVideo moved to the tail
\* (position n of the list) are the same objects in the same order, with
\* the statuses they had
RestKept(n) ==
  /\ Len(batchTasks') = Len(batchTasks)
  /\ \A k \in 1..Len(batchTasks) :
       k # n => /\ batchTasks'[k] = batchTasks[k]
                /\ objs'[batchTasks'[k]].status = objs[batchTasks[k]].status

\* C18: postponeCurrentVideo moves the active task to the tail of the list
\* with status pending and changes nothing else: currentTaskIndex keeps its
\* value, the other tasks keep their relative order and their statuses, and
\* the list still holds every path exactly as often as before.  The handler
\* has two parts: the reorder up to its saveBatchProgress, and what it does
\* when the save has been answered (await loadCurrentTask()).
C18_PostponeMovesToTail ==
  [][/\ (PostponeCurrentVideo \/ AutoPostponeCurrentVideo) =>
          LET n == Len(batchTasks)
              i == currentTaskIndex + 1
          IN
          /\ currentTaskIndex' = currentTaskIndex
          /\ isBatchMode' = isBatchMode
          /\ Len(batchTasks') = n
          /\ \A k \in 1..(i - 1) : batchTasks'[k] = batchTasks[k]
          /\ \A k \in i..(n - 1) : batchTasks'[k] = batchTasks[k + 1]
          /\ objs'[batchTasks'[n]] = [objs[batchTasks[i]] EXCEPT !.status = "pending"]
          /\ \A k \in 1..(n - 1) : objs'[batchTasks'[k]] = objs[batchTasks'[k]]
          /\ \A p \in 1..MaxFiles :
               Occurrences(batchTasks', objs', p) = Occurrences(batchTasks, objs, p)
     /\ \A t \in BagToSet(threads), ok \in BOOLEAN :
          (PostponeAfterSave(t, ok) \/ AutoPostponeAfterSave(t, ok)) =>
            /\ currentTaskIndex' = currentTaskIndex
            /\ RestKept(Len(batchTasks))
            /\ \A p \in 1..MaxFiles :
                 Occurrences(batchTasks', objs', p) = Occurrences(batchTasks, objs, p)]_vars

(* ---- the segment editor ---- *)
\* the open range sel holds frame n
InRange(sel, n) == sel # NoSel /\ sel.start <= n /\ n <= sel.end

\* C19: selectFrame(n) never shrinks the open range: with no open range it
\* opens [n, n], and otherwise the new range holds n and every frame of the
\* range it replaces, for every n, also one inside the old range
C19_SelectNeverShrinks ==
  [][\A n \in EditorFrames :
       SelectFrame(n) =>
         IF currentSelection = NoSel
         THEN currentSelection' = [start |-> n, end |-> n]
         ELSE /\ InRange(currentSelection', n)
              /\ \A m \in EditorFrames :
                   InRange(currentSelection, m) => InRange(currentSelection', m)]_vars

\* C20: addSegment on an open range with start >= end leaves the confirmed
\* list (and the open range) as it was; with start < end it appends exactly
\* [start, end] to the confirmed list and clears the open range; hence every
\* confirmed range has start < end
C20_AddSegmentNonEmpty ==
  /\ [](\A i \in 1..Len(selectedSegments) :
          selectedSegments[i].start_frame < selectedSegments[i].end_frame)
  /\ [][AddSegment =>
          IF currentSelection.start >= currentSelection.end
          THEN UNCHANGED <<selectedSegments, currentSelection, hasSegments>>
          ELSE /\ selectedSegments'
                    = Append(selectedSegments,
                             [start_frame |-> currentSelection.start,
                              end_frame |-> currentSelection.end])
               /\ currentSelection' = NoSel
               /\ hasSegments']_vars

\* two ranges have been confirmed and a one-frame range, which addSegment
\* refuses, is open
C20_Witness ==
  /\ Len(selectedSegments) = 2
  /\ hasSegments
  /\ currentSelection # NoSel
  /\ currentSelection.start = currentSelection.end

\* two confirmed ranges share a frame
Intersect(a, b) == a.start_frame <= b.end_frame /\ b.start_frame <= a.end_frame

\* C21: after any sequence of selectFrame (on frames the grid draws as
\* normal frames), addSegment and removeSegment, the confirmed ranges are
\* pairwise non-overlapping
C21_RangesDisjoint ==
  \A i, j \in 1..Len(selectedSegments) :
    i # j => ~Intersect(selectedSegments[i], selectedSegments[j])

\* the list without its element at the 0-based position index
WithoutAt(segs, index) ==
  [k \in 1..(Len(segs) - 1) |-> IF k <= index THEN segs[k] ELSE segs[k + 1]]

SelectedOn == allFrames

\* C23: a generation request never carries ranges that were selected on a
\* task other than the one it names (the selection is cleared whenever the
\* active task changes, also when the new task's preparation fails)
C23_GenerateOwnRanges ==
  [][(GenerateCurrentVideo /\ Len(selectedSegments) > 0)
       => SelectedOn = objs[Active].path]_vars

\* the task at the 1-based position k lies in the look-ahead window, is
\* pending and carries no cached preparation data
WantsPrefetch(k) ==
  /\ k - 1 \in {currentTaskIndex + 1, currentTaskIndex + 2}
  /\ Status(k) = "pending"
  /\ objs[batchTasks[k]].frames = NoPath
  /\ objs[batchTasks[k]].metadata = NoPath

\* C24: preloadNextTasks issues a preparation request for exactly the tasks
\* at the positions currentTaskIndex + 1 and currentTaskIndex + 2 that
\* exist, are pending and have no cached preparation data
C24_ArmWindowOnly ==
  [][\A t \in BagToSet(threads) :
       LoadSaveReturn(t, TRUE) =>
         \A k \in Positions :
           CopiesIn(Thread("pre_meta", batchTasks[k]), threads')
             = CopiesIn(Thread("pre_meta", batchTasks[k]), threads)
               + (IF WantsPrefetch(k) THEN 1 ELSE 0)]_vars

\* get_video_metadata or extract_all_frames rejected inside preloadTask
PrefetchFails(t) == PreMetaReturn(t, FALSE) \/ PreFramesReturn(t, FALSE)

\* the step offers the task at the 1-based position k of the new queue
Offers(k) ==
  /\ pipeline = "batch"
  /\ Len(trace') = Len(trace) + 1
  /\ trace'[Len(trace')].ev = "offer"
  /\ k = currentTaskIndex' + 1
  /\ k \in 1..Len(batchTasks')

\* C25: when preparation fails during prefetch the task goes back to
\* pending with no cached data (never to error or skipped), and when a
\* pending task without cached data is offered, loadCurrentTask requests
\* its preparation again
C25_PrefetchFailureRetried ==
  [][/\ \A t \in BagToSet(threads) :
          PrefetchFails(t) =>
            /\ objs'[t.obj].status = "pending"
            /\ objs'[t.obj].frames = NoPath
            /\ objs'[t.obj].metadata = NoPath
     /\ \A k \in 1..Len(batchTasks') :
          (/\ Offers(k)
           /\ batchTasks'[k] \in 1..Len(objs)
           /\ objs[batchTasks'[k]].status = "pending"
           /\ objs[batchTasks'[k]].frames = NoPath)
            => CopiesIn(Thread("load_meta", batchTasks'[k]), threads')
                 = CopiesIn(Thread("load_meta", batchTasks'[k]), threads) + 1]_vars

\* the task object is an element of the queue
InQueue(ref) == \E k \in Positions : batchTasks[k] = ref

\* C26: a prefetch that was in flight when the queue was re-armed finishes
\* and stores its result on the task that is in the queue, so that cached
\* data held for a video is on the queue's task for that video when it is
\* offered (postponed tasks included); the second part is stated for the
\* first batch run, whose task objects are the only ones on the heap
C26_PrefetchResultKept ==
  /\ [][\A t \in BagToSet(threads) :
          PreFramesReturn(t, TRUE) =>
            /\ InQueue(t.obj)
            /\ objs'[t.obj].frames # NoPath
            /\ objs'[t.obj].metadata # NoPath]_vars
  /\ []((pipeline = "batch" /\ starts = 1) =>
          \A r \in 1..Len(objs), k \in Positions :
            (objs[r].frames # NoPath /\ objs[batchTasks[k]].path = objs[r].path)
              => objs[batchTasks[k]].frames # NoPath)

\* the preparation of the active task is pending inside loadCurrentTask
HangingLoad ==
  /\ isBatchMode
  /\ currentTaskIndex < Len(batchTasks)
  /\ \E t \in BagToSet(threads) : t.pc \in {"load_meta", "load_frames"} /\ t.obj = Active

\* a task of the look-ahead window is still pending: no prefetch was
\* started for it
WindowPending ==
  \E i \in {1, 2} :
    /\ currentTaskIndex + i < Len(batchTasks)
    /\ Status(currentTaskIndex + i + 1) = "pending"

\* skip was pressed on the task at the 0-based position i and its handler
\* has not advanced yet
SkipPressed(i) ==
  /\ isBatchMode
  /\ currentTaskIndex = i
  /\ i < Len(batchTasks)
  /\ \E t \in BagToSet(threads) : t.pc = "advance_save" /\ t.obj = Active

\* C27: while the preparation of the active task hangs, the tasks of the
\* look-ahead window are still eventually prefetched; and a skip, pressed on
\* a stalled task or while a prefetch is outstanding, advances to the next
\* task
C27_StallOnlyOwnTask ==
  /\ (HangingLoad /\ WindowPending) ~> ~(HangingLoad /\ WindowPending)
  /\ \A i \in 0..(MaxFiles + MaxPostpone) : SkipPressed(i) ~> (currentTaskIndex > i)

\* the task object carries cached preparation data
HasData(ref) == objs[ref].frames # NoPath /\ objs[ref].metadata # NoPath

\* C28: in the manual split every task that is ready, processing or
\* completed carries cached preparation data, and no task that is skipped,
\* in error or loading carries any (a pending task carries data exactly
\* when a prefetch for it has completed)
C28_DataIffPrepared ==
  pipeline = "batch" =>
    \A k \in Positions :
      /\ Status(k) \in {"ready", "processing", "completed"} => HasData(batchTasks[k])
      /\ Status(k) \in {"skipped", "error", "loading"} => ~HasData(batchTasks[k])

\* delete_video_file has been invoked and has not answered yet
DeletePending == \E t \in BagToSet(threads) : t.pc = "delete"

\* the unattended branch has marked the task at the 0-based position i
\* completed and waits for its checkpoint write
UnattendedDone(i) ==
  /\ unattended
  /\ currentTaskIndex = i
  /\ \E t \in BagToSet(threads) : t.pc = "unattended_save"

\* C29: in unattended mode a successful split marks the task completed
\* without invoking delete_video_file and, with no user action, advances to
\* the next eligible task; the unattended path never invokes
\* delete_video_file
C29_UnattendedKeepsAndAdvances ==
  /\ [][\A t \in BagToSet(threads) :
          /\ (unattended /\ ProcessSplitReturn(t, TRUE)) =>
               /\ objs'[t.obj].status = "completed"
               /\ OthersUnchanged(t.obj)
               /\ UNCHANGED <<batchTasks, currentTaskIndex>>
               /\ UnattendedDone(currentTaskIndex)'
               /\ ~DeletePending'
          /\ UnattendedSaveReturn(t, TRUE) =>
               /\ IsFirstEligibleFrom(currentTaskIndex + 1, currentTaskIndex')
               /\ AdvanceCompleted
               /\ ~DeletePending']_vars
  /\ [](unattended => ~DeletePending)
  /\ \A i \in 0..(MaxFiles + MaxPostpone) : UnattendedDone(i) ~> (currentTaskIndex > i)

\* unattended mode, no click since the start: the first task was split and
\* marked completed, and the second one is being processed
C29_Witness ==
  /\ unattended
  /\ postponed = 0
  /\ Len(batchTasks) = 2
  /\ currentTaskIndex = 1
  /\ Status(1) = "completed"
  /\ Status(2) = "processing"
  /\ Len(trace) = 2

\* a concat call is pending
ConcatPending == \E t \in BagToSet(threads) : t.pc \in {"concat", "reencode"}

\* C30: when concat_videos fails with a compatibility error the dialog is
\* opened, no error message is set and no further call is started; a retry
\* with re-encoding ends in the result message or in a plain error message
\* and does not open the dialog again; while the dialog is open no concat
\* call is pending (folder dialogs opened earlier may still answer)
C30_IncompatibleAsksOnce ==
  /\ [][\A t \in BagToSet(threads), err \in Rejections :
          /\ (err.prefix = Incompatible /\ ConcatReturn(t, FALSE, err)) =>
               /\ showCompatDialog'
               /\ compatMessage' = Str("", err.rest)
               /\ errorMsg' = NoMsg
               /\ progressMsg' = NoMsg
               /\ ~isProcessing'
               /\ ~ConcatPending'
          /\ ConcatWithReencodeReturn(t, TRUE, err) =>
               /\ progressMsg' = Done
               /\ errorMsg' = NoMsg
               /\ ~showCompatDialog'
               /\ ~ConcatPending'
          /\ ConcatWithReencodeReturn(t, FALSE, err) =>
               /\ errorMsg' = err
               /\ progressMsg' = NoMsg
               /\ ~showCompatDialog'
               /\ UNCHANGED compatMessage
               /\ ~ConcatPending']_vars
  /\ [](showCompatDialog => ~ConcatPending)
  /\ [][(showCompatDialog /\ ~showCompatDialog') =>
          (ConcatDirect \/ ConcatWithReencode \/ CancelDialog)]_vars
  /\ [][(~showCompatDialog /\ showCompatDialog') =>
          \E t \in BagToSet(threads), err \in Rejections :
            err.prefix = Incompatible /\ ConcatReturn(t, FALSE, err)]_vars

\* the retry with re-encoding was rejected with a compatibility error: it
\* is shown as a plain error message and the dialog stays closed; the
\* output folder dialog, opened before the start, is still open
C30_Witness ==
  /\ pipeline = "concat"
  /\ errorMsg = Str(Incompatible, "codec")
  /\ compatMessage = Str("", "codec")
  /\ ~showCompatDialog
  /\ ~isProcessing
  /\ threads = SetToBag({Thread("pick_concat_output", 0)})

(* ---- the scripted session ---- *)
\* the session is over: the batch is finished and no call is pending
ScenarioOver == Finished /\ threads = EmptyBag

\* C31: with the tasks [a, b, c], when the user skips a, confirms the range
\* [10, 50] on b, generates and keeps the source, postpones c once and
\* completes it when it is offered again, the session ends with a skipped,
\* b completed, c completed, c offered exactly twice and the batch finished
C31_ScenarioOutcome ==
  ScenarioOver =>
    /\ Len(batchTasks) = Len(ScenarioFiles)
    /\ [k \in Positions |-> objs[batchTasks[k]].path] = <<1, 2, 3>>
    /\ [k \in Positions |-> Status(k)] = <<"skipped", "completed", "completed">>
    /\ OfferCount(3) = 2

(* ---- overlapping handlers ---- *)
\* C32: the disposition buttons, and with them delete_video_file, are
\* offered only for the task whose generation succeeded: when a generation
\* call is answered with success and a task is on screen, that task is a
\* task of the video the call was made for
C32_DeleteOnlyGenerated ==
  [][\A t \in BagToSet(threads) :
       (/\ pipeline = "batch"
        /\ GenerateReturn(t, TRUE)
        /\ isBatchMode'
        /\ currentTaskIndex' < Len(batchTasks'))
       => objs'[batchTasks'[currentTaskIndex' + 1]].path = objs[t.obj].path]_vars

\* an answer to a preparation call, made by a prefetch or by loadCurrentTask
PreparationAnswered ==
  \E t \in BagToSet(threads), ok \in BOOLEAN :
    \/ PreMetaReturn(t, ok)
    \/ PreFramesReturn(t, ok)
    \/ LoadMetaReturn(t, ok)
    \/ LoadFramesReturn(t, ok)

\* C33: once a task is skipped or completed, no answer to a preparation
\* call, of a prefetch or of a load that was started for it, changes its
\* status
C33_NoLostUpdate ==
  [][PreparationAnswered =>
       \A ref \in 1..Len(objs) :
         objs[ref].status \in Terminal => objs'[ref].status = objs[ref].status]_vars

\* C34: in the manual and in the automatic split every task at a position
\* below currentTaskIndex is completed or skipped
C34_NoTaskPassedOver ==
  pipeline \in {"batch", "auto"} =>
    \A k \in Positions : k <= currentTaskIndex => Status(k) \in Terminal

\* the call of thread t was made for a video other than the one of the task
\* at currentTaskIndex
StaleFor(t) ==
  /\ isBatchMode
  /\ currentTaskIndex < Len(batchTasks)
  /\ objs[Active].path # objs[t.obj].path

\* C35: when a preparation call of loadCurrentTask is answered for a video
\* that is no longer the one of the task at currentTaskIndex, the displayed
\* metadata and frames and the selection of the editor stay as they are
C35_StaleLoadIgnored ==
  [][\A t \in BagToSet(threads), ok \in BOOLEAN :
       (/\ pipeline = "batch"
        /\ LoadMetaReturn(t, ok) \/ LoadFramesReturn(t, ok)
        /\ StaleFor(t))
       => UNCHANGED <<videoMetadata, allFrames, selectedSegments, currentSelection>>]_vars

\* a generate_video_segments call for the task at currentTaskIndex is pending
GeneratingActive ==
  /\ pipeline = "batch"
  /\ isBatchMode
  /\ currentTaskIndex < Len(batchTasks)
  /\ \E t \in BagToSet(threads) : t.pc = "generate" /\ t.obj = Active

\* C36: a task becomes completed only from processing, and while a
\* generation call for the task at currentTaskIndex is pending the status
\* of that task is processing
C36_LifecycleGraph ==
  /\ [][\A ref \in 1..Len(objs) :
          (objs[ref].status # "completed" /\ objs'[ref].status = "completed")
            => objs[ref].status = "processing"]_vars
  /\ [](GeneratingActive => objs[Active].status = "processing")

\* C37: when the task that is offered carries cached frames and metadata,
\* it is ready at once, its cached data is displayed, and no preparation
\* call is issued for it
C37_CachedTaskReady ==
  [][\A k \in 1..Len(batchTasks') :
       (/\ Offers(k)
        /\ objs'[batchTasks'[k]].frames # NoPath
        /\ objs'[batchTasks'[k]].metadata # NoPath)
       => /\ objs'[batchTasks'[k]].status = "ready"
          /\ allFrames' = objs'[batchTasks'[k]].frames
          /\ videoMetadata' = objs'[batchTasks'[k]].metadata
          /\ \A pc \in PrepPcs :
               CopiesIn(Thread(pc, batchTasks'[k]), threads')
                 <= CopiesIn(Thread(pc, batchTasks'[k]), threads)]_vars

\* a video that was prepared, then postponed, is offered again: the copy at
\* the tail carries the data and is ready while the checkpoint is written
C37_Witness ==
  /\ pipeline = "batch"
  /\ isBatchMode
  /\ overlaps = 0
  /\ Len(trace) = 3
  /\ trace[2].ev = "postpone"
  /\ trace[3] = Offer(trace[2].path)
  /\ currentTaskIndex < Len(batchTasks)
  /\ objs[Active].path = trace[2].path
  /\ objs[Active].status = "ready"
  /\ objs[Active].frames # NoPath
  /\ \E ref \in 1..Len(objs) :
       /\ objs[ref].status = "later"
       /\ objs[ref].path = trace[2].path
       /\ objs[ref].frames # NoPath
  /\ \E t \in BagToSet(threads) : t.pc = "load_save" /\ t.obj = Active
  /\ \A t \in BagToSet(threads) : t.pc \notin {"load_meta", "load_frames"}

(* ---- the order of the confirmed ranges ---- *)
\* C38: the confirmed ranges are in the order of their start frames
C38_RangesOrdered ==
  \A i \in 1..(Len(selectedSegments) - 1) :
    selectedSegments[i].start_frame <= selectedSegments[i + 1].start_frame

(* ---- the generation call ---- *)
\* number of generate_video_segments calls that are pending
GenerateCalls ==
  BagCardinality([t \in {u \in BagToSet(threads) : u.pc = "generate"} |-> threads[t]])

\* C39: in the manual batch split at most one generate_video_segments call
\* is pending, and isGeneratingSegments holds exactly while one is pending
C39_OneGenerationInFlight ==
  pipeline = "batch" =>
    /\ GenerateCalls <= 1
    /\ isGeneratingSegments <=> GenerateCalls = 1

\* a generation is pending while the handler of a skip or postpone pressed
\* during this generation awaits its checkpoint write
C39_Witness ==
  /\ pipeline = "batch"
  /\ isGeneratingSegments
  /\ GenerateCalls = 1
  /\ overlaps = 1
  /\ \E t \in BagToSet(threads) : t.pc \in {"advance_save", "postpone_save"}

(* ---- the remove-ending batch ---- *)
\* number of entries of skippedVideos that name the video p
SkippedEntries(p) ==
  Cardinality({i \in 1..Len(skippedVideos) : skippedVideos[i].name = p})

\* C40: in the remove-ending batch every task is named by at most one entry
\* of skippedVideos, and by one exactly when its status is skipped
C40_SkippedListConsistent ==
  pipeline = "remove" =>
    \A k \in Positions :
      /\ SkippedEntries(objs[batchTasks[k]].name) <= 1
      /\ SkippedEntries(objs[batchTasks[k]].name) = 1 <=> Status(k) = "skipped"

====
